---- MODULE Spec2Model ----
(***************************************************************************)
(* Process Watchdog (diffstorm/processWatchdog): the supervisor loop of    *)
(* main.c together with process.c, heartbeat.c, stats.c, filecmd.c and     *)
(* cmd.c, as a state machine.  The supervisor is one thread; the children, *)
(* the operator (rendezvous files), the clock and signal delivery are the  *)
(* environment.                                                            *)
(***************************************************************************)
EXTENDS Integers, Sequences, FiniteSets, TLC

(***************************************************************************)
(* Bounds of the model.                                                    *)
(***************************************************************************)
NApps == 2          \* number of [app:...] sections
MaxTime == 2        \* horizon of the clock driven by the environment (seconds)
MaxPid == 3         \* pids the OS hands out before fork fails (EAGAIN)
MaxQueue == 1       \* datagrams waiting in the socket
MaxEnv == 1         \* signals, datagrams, process exits and created files
MaxHeartbeats == 2  \* datagrams when the children are the whole environment
MaxEvents == 2      \* crashes, and heartbeat resets, recorded per child
MaxSignals == 11    \* events when SIGUSR1 is the operator's only means
MaxLoaded == 2      \* largest heartbeat time in a loaded statistics file
MaxCommands == 3    \* files the operator creates when files are its only means
MaxOps == 2         \* files created and process exits when those are the whole environment
BootEpoch == 1000   \* time(NULL) - CLOCK_MONOTONIC, the wall clock at boot

(***************************************************************************)
(* Program constants.                                                      *)
(***************************************************************************)
INT32_MAX == 2147483647
MAX_WAIT_PROCESS_START == 5
MAX_WAIT_PROCESS_TERMINATION == 30
EXIT_NORMALLY == 0
EXIT_CRASHED == 1
EXIT_RESTART == 2
EXIT_REBOOT == 3
KILL_ERROR_INIT == 10
MAX_APP_NAME_LENGTH == 32
MAX_FILENAME_LENGTH == MAX_APP_NAME_LENGTH
STATS_MAGIC == "A50FAA55"   \* the uint32_t, as stats_print_to_file prints it

Apps == 1..NApps

Max(a, b) == IF a >= b THEN a ELSE b

\* F applied to the value of e: sequencing of two steps of a function.
Then(e, F(_)) == CHOOSE r \in { F(x) : x \in {e} } : TRUE

\* C's integer division truncates toward zero (b > 0).
CDiv(a, b) == IF a >= 0 THEN a \div b ELSE -((-a) \div b)

VARIABLES
    cfg,          \* [Apps -> start_delay, heartbeat_delay, heartbeat_interval]
    reboot,       \* AppState_t.periodic_reboot and its daily minute
    apps,         \* [Apps -> started, first_heartbeat, pid, last_heartbeat]
    stats,        \* [Apps -> Statistic_t]
    raw,          \* [Apps -> Statistic_t]: the contents of stats_<app>.raw
    main_alive,   \* main.c: static volatile bool main_alive
    return_code,  \* main.c: static volatile int return_code
    kill_error,   \* main.c: static volatile int kill_error
    pc,           \* where main() is
    start_time,   \* main(): time(NULL) when the supervisor started
    status,       \* exit status of the supervisor process, -1 while it runs
    idx,          \* loop variable i of the scan and of the shutdown loop
    uptime,       \* main(): long uptime, taken at the top of a tick
    intr,         \* a signal handler ran while main() waits in poll()
    now,          \* CLOCK_MONOTONIC and sysinfo uptime, in seconds
    procs,        \* pids of the live processes
    halted,       \* pids of the processes a signal has stopped
    nextPid,      \* the pid the next successful fork returns
    udpq,         \* datagrams waiting in the UDP socket
    files,        \* rendezvous files present in the working directory
    hist,         \* per child: history of spawns and heartbeat arrivals
    ev,           \* what the last supervisor step decided
    trig,         \* exit triggers that have occurred so far
    env           \* number of events the environment may still inject

vars == <<cfg, reboot, start_time, apps, stats, raw, main_alive, return_code, kill_error,
          pc, status, idx, uptime, intr, now, procs, halted, nextPid, udpq,
          files, hist, ev, trig, env>>

(***************************************************************************)
(* Configurations (config.c accepts any non-negative integers).            *)
(***************************************************************************)
\* The name of the i-th [app:...] section.
SectionNames == <<"Bot", "Tor", "Feed", "Relay", "Proxy", "Cache">>

SectionName(i) == SectionNames[((i - 1) % Len(SectionNames)) + 1]

\* The settings of one [app:...] section.
App(nm, sd, hd, hi) ==
    [name |-> nm, start_delay |-> sd, heartbeat_delay |-> hd,
     heartbeat_interval |-> hi]

\* The configurations the model starts from: a child whose heartbeat delay
\* exceeds its interval beside one whose delay is below it, a child without
\* heartbeat monitoring beside a monitored one, and unmonitored children
\* with a daily reboot at the minute the supervisor starts in.
Scenarios ==
    { [cfg |-> [i \in Apps |-> IF i = 1 THEN App("Bot", 0, 2, 1)
                                       ELSE App(SectionName(i), 1, 1, 2)],
       reboot |-> [mode |-> "DISABLED", minute |-> 0]],
      [cfg |-> [i \in Apps |-> IF i = 1 THEN App("Bot", 0, 1, 0)
                                       ELSE App(SectionName(i), 0, 2, 1)],
       reboot |-> [mode |-> "DISABLED", minute |-> 0]],
      [cfg |-> [i \in Apps |-> IF i = 1 THEN App("Bot", 0, 1, 0)
                                       ELSE App(SectionName(i), 1, 1, 0)],
       reboot |-> [mode |-> "DAILY_TIME", minute |-> (BootEpoch \div 60) % 1440]] }

(***************************************************************************)
(* The part of the state the process, heartbeat and statistics functions   *)
(* read and write, as one record, so that a handler that calls several of  *)
(* them is the composition of their effects.                               *)
(***************************************************************************)
World ==
    [apps |-> apps, stats |-> stats, raw |-> raw, procs |-> procs,
     halted |-> halted,
     nextPid |-> nextPid, now |-> now, files |-> files, hist |-> hist]

\* time(NULL)
time_now(w) == w.now + BootEpoch

\* heartbeat.c: get_monotonic_time
get_monotonic_time(w) == w.now

\* utils.c: get_uptime (sysinfo), on the time base of CLOCK_MONOTONIC.
get_uptime(w) == w.now

\* AppState_t.uptime: get_uptime() when the configuration was read, as the
\* supervisor started.
state_uptime == start_time - BootEpoch

(***************************************************************************)
(* stats.c                                                                 *)
(***************************************************************************)
ZeroStats ==
    [started_at |-> 0, crashed_at |-> 0, heartbeat_reset_at |-> 0,
     avg_first_heartbeat_time |-> 0, max_first_heartbeat_time |-> 0,
     min_first_heartbeat_time |-> 0, avg_heartbeat_time |-> 0,
     max_heartbeat_time |-> 0, min_heartbeat_time |-> 0,
     start_count |-> 0, crash_count |-> 0, heartbeat_count |-> 0,
     heartbeat_count_old |-> 0, heartbeat_reset_count |-> 0,
     avg_heartbeat_count_old |-> 0, magic |-> STATS_MAGIC]

\* Faulty variant: the count is zeroed without being kept.
clearHeartbeatCount_uncopied(s) ==
    [s EXCEPT !.heartbeat_count = 0]

clearHeartbeatCount(s) ==
    [s EXCEPT !.heartbeat_count_old = s.heartbeat_count,
              !.heartbeat_count = 0]

updateHeartbeatCountAverage(s) ==
    LET total_events == s.crash_count + s.heartbeat_reset_count
    IN  IF s.heartbeat_count_old > 0
        THEN IF total_events = 1
             THEN [s EXCEPT !.avg_heartbeat_count_old = s.heartbeat_count_old]
             ELSE IF total_events > 1
                  THEN [s EXCEPT !.avg_heartbeat_count_old =
                          ((s.avg_heartbeat_count_old * (total_events - 1))
                             + s.heartbeat_count_old) \div total_events]
                  ELSE s
        ELSE s

\* Faulty variant: the start is stamped but not counted.
stats_started_at_uncounted(s, t) ==
    clearHeartbeatCount([s EXCEPT !.started_at = t])

stats_started_at(s, t) ==
    clearHeartbeatCount(
        [s EXCEPT !.started_at = t, !.start_count = @ + 1])

\* Faulty variant: the crash is stamped but not counted.
stats_crashed_at_uncounted(s, t) ==
    clearHeartbeatCount(updateHeartbeatCountAverage(
        [s EXCEPT !.crashed_at = t]))

stats_crashed_at(s, t) ==
    clearHeartbeatCount(updateHeartbeatCountAverage(
        [s EXCEPT !.crashed_at = t, !.crash_count = @ + 1]))

stats_heartbeat_reset_at(s, t) ==
    clearHeartbeatCount(updateHeartbeatCountAverage(
        [s EXCEPT !.heartbeat_reset_at = t, !.heartbeat_reset_count = @ + 1]))

\* Faulty variant: the sample is folded in but not counted.
stats_update_heartbeat_time_uncounted(s, heartbeatTime) ==
    LET n == s.heartbeat_count + 1
        s1 == [s EXCEPT !.avg_heartbeat_time =
                            ((s.avg_heartbeat_time * (n - 1)) + heartbeatTime) \div n]
        s2 == IF heartbeatTime > s1.max_heartbeat_time
              THEN [s1 EXCEPT !.max_heartbeat_time = heartbeatTime] ELSE s1
    IN  IF heartbeatTime < s2.min_heartbeat_time \/ n = 1
        THEN [s2 EXCEPT !.min_heartbeat_time = heartbeatTime] ELSE s2

\* Faulty variant: the maximum is replaced by a smaller sample.
stats_update_heartbeat_time_max_reversed(s, heartbeatTime) ==
    LET n == s.heartbeat_count + 1
        s1 == [s EXCEPT !.heartbeat_count = n,
                        !.avg_heartbeat_time =
                            ((s.avg_heartbeat_time * (n - 1)) + heartbeatTime) \div n]
        s2 == IF heartbeatTime < s1.max_heartbeat_time
              THEN [s1 EXCEPT !.max_heartbeat_time = heartbeatTime] ELSE s1
    IN  IF heartbeatTime < s2.min_heartbeat_time \/ n = 1
        THEN [s2 EXCEPT !.min_heartbeat_time = heartbeatTime] ELSE s2

stats_update_heartbeat_time(s, heartbeatTime) ==
    LET n == s.heartbeat_count + 1
        s1 == [s EXCEPT !.heartbeat_count = n,
                        !.avg_heartbeat_time =
                            ((s.avg_heartbeat_time * (n - 1)) + heartbeatTime) \div n]
        s2 == IF heartbeatTime > s1.max_heartbeat_time
              THEN [s1 EXCEPT !.max_heartbeat_time = heartbeatTime] ELSE s1
    IN  IF heartbeatTime < s2.min_heartbeat_time \/ n = 1
        THEN [s2 EXCEPT !.min_heartbeat_time = heartbeatTime] ELSE s2

stats_update_first_heartbeat_time(s, heartbeatTime) ==
    LET start_count == s.start_count + s.crash_count + s.heartbeat_reset_count
        s1 == [s EXCEPT !.avg_first_heartbeat_time =
                  CDiv((s.avg_first_heartbeat_time * (start_count - 1))
                          + heartbeatTime, start_count)]
        s2 == IF heartbeatTime > s1.max_first_heartbeat_time
              THEN [s1 EXCEPT !.max_first_heartbeat_time = heartbeatTime] ELSE s1
    IN  IF heartbeatTime < s2.min_first_heartbeat_time \/ s.start_count = 1
        THEN [s2 EXCEPT !.min_first_heartbeat_time = heartbeatTime] ELSE s2

\* snprintf(buf, size, ...): at most size - 1 characters are kept.
snprintf(size, text) ==
    SubSeq(text, 1, IF Len(text) < size THEN Len(text) ELSE size - 1)

\* The file names stats_write_to_file, stats_read_from_file and
\* stats_print_to_file build in char filename[MAX_FILENAME_LENGTH].
raw_file_name(app_name) ==
    snprintf(MAX_FILENAME_LENGTH, "stats_" \o app_name \o ".raw")

log_file_name(app_name) ==
    snprintf(MAX_FILENAME_LENGTH, "stats_" \o app_name \o ".log")

\* What reading the text of a statistics log into a Statistic_t leaves: the
\* bytes are ASCII, so the magic is not STATS_MAGIC (whose bytes are above
\* 0x7F) and the other fields, which resetStatisticsFile clears, are of no
\* account.
LogText == [ZeroStats EXCEPT !.magic = "ASCII"]

\* Faulty variant: the record is kept whatever its magic is.
resetStatisticsFile_kept(s) == s

resetStatisticsFile(s) ==
    IF s.magic # STATS_MAGIC THEN ZeroStats ELSE s

\* Faulty variant: nothing is written.
stats_write_to_file_skipped(w, i) == w

\* raw[j] is what the file at the .raw name of child j holds: the record is
\* written to the file child i names, which is also the file of every child
\* whose .raw name is the same after truncation.
stats_write_to_file(w, i) ==
    LET s == resetStatisticsFile(w.stats[i])
    IN  [w EXCEPT !.stats[i] = s,
                  !.raw = [j \in Apps |->
                             IF raw_file_name(cfg[j].name) = raw_file_name(cfg[i].name)
                             THEN s ELSE w.raw[j]]]

\* fopen(filename, "w") and the text of the record: the file at the .log
\* name of child i is overwritten, whichever child reads it as its .raw.
stats_print_to_file(w, i) ==
    [w EXCEPT !.raw = [j \in Apps |->
                         IF raw_file_name(cfg[j].name) = log_file_name(cfg[i].name)
                         THEN LogText ELSE w.raw[j]]]

\* What a starting supervisor loads from the file at the .raw name of child
\* i, which exists: f_read of the whole struct into the zeroed static record
\* (the terminator f_read appends lands on a byte that is still zero), then
\* resetStatisticsFile.
stats_read_from_file(w, i) ==
    [w EXCEPT !.stats[i] = resetStatisticsFile(w.raw[i])]

(***************************************************************************)
(* apps.c and heartbeat.c                                                  *)
(***************************************************************************)
\* apps.c: the stamp process.c takes after a spawn reads time(NULL).
update_heartbeat_time(w, i) ==
    [w EXCEPT !.apps[i].last_heartbeat = time_now(w)]

\* heartbeat.c: the stamp of a heartbeat reads CLOCK_MONOTONIC.
heartbeat_update_time(w, i) ==
    [w EXCEPT !.apps[i].last_heartbeat = get_monotonic_time(w)]

heartbeat_get_elapsed_time(w, i) ==
    get_monotonic_time(w) - w.apps[i].last_heartbeat

\* Faulty variant: the heartbeat delay is ignored.
heartbeat_threshold_interval_only(w, i) == cfg[i].heartbeat_interval

\* The threshold heartbeat_is_timeout compares the elapsed time with.
heartbeat_threshold(w, i) ==
    IF w.apps[i].first_heartbeat
    THEN cfg[i].heartbeat_interval
    ELSE Max(cfg[i].heartbeat_interval, cfg[i].heartbeat_delay)

\* Faulty variant: a zero interval is not taken as "no monitoring".
heartbeat_is_timeout_unguarded(w, i) ==
    /\ w.apps[i].started
    /\ ~(heartbeat_get_elapsed_time(w, i) < 0)
    /\ heartbeat_get_elapsed_time(w, i) >= heartbeat_threshold(w, i)

\* heartbeat_is_timeout: the value it returns ...
heartbeat_is_timeout(w, i) ==
    /\ w.apps[i].started
    /\ ~(cfg[i].heartbeat_interval <= 0)
    /\ ~(heartbeat_get_elapsed_time(w, i) < 0)
    /\ heartbeat_get_elapsed_time(w, i) >= heartbeat_threshold(w, i)

\* Faulty variant: a clock anomaly leaves the baseline alone.
heartbeat_is_timeout_effect_none(w, i) == w

\* ... and the state it leaves: on a clock anomaly the baseline is reset.
heartbeat_is_timeout_effect(w, i) ==
    IF /\ w.apps[i].started
       /\ ~(cfg[i].heartbeat_interval <= 0)
       /\ heartbeat_get_elapsed_time(w, i) < 0
    THEN heartbeat_update_time(w, i)
    ELSE w

find_pid_any_started(w, pid) ==
    IF \E i \in Apps : 0 < w.apps[i].pid
    THEN CHOOSE i \in Apps :
            /\ 0 < w.apps[i].pid
            /\ \A j \in Apps : 0 < w.apps[j].pid => i <= j
    ELSE 0

\* The lowest index whose pid is the given one, 0 when there is none.
find_pid(w, pid) ==
    IF \E i \in Apps : 0 < w.apps[i].pid /\ pid = w.apps[i].pid
    THEN CHOOSE i \in Apps :
            /\ 0 < w.apps[i].pid /\ pid = w.apps[i].pid
            /\ \A j \in Apps : (0 < w.apps[j].pid /\ pid = w.apps[j].pid) => i <= j
    ELSE 0

(***************************************************************************)
(* process.c                                                               *)
(***************************************************************************)
\* kill(pid, 0) by the parent of the process, as root or as the user of the
\* child: 0 when the process exists, ESRCH when it does not.
kill_probe(w, pid) == IF pid \in w.procs THEN "0" ELSE "ESRCH"

\* process_is_running, given what the probe left in errno ("0": success).
process_is_running_on(pid, errno) ==
    IF pid <= 0 THEN FALSE
    ELSE IF errno = "0" THEN TRUE
    ELSE IF errno = "EPERM" THEN TRUE
    ELSE FALSE

process_is_running(w, i) ==
    process_is_running_on(w.apps[i].pid, kill_probe(w, w.apps[i].pid))

process_is_started(w, i) == w.apps[i].started

\* Faulty variant: the comparison with the start delay is reversed.
process_is_start_time_reversed(w, i) ==
    (get_uptime(w) - state_uptime) <= cfg[i].start_delay

\* Faulty variant: the start delay is not waited for.
process_is_start_time_at_once(w, i) == cfg[i].start_delay >= 0

process_is_start_time(w, i) == (get_uptime(w) - state_uptime) >= cfg[i].start_delay

\* What fork can do: fail, or create a process that stays up, or create a
\* process that exits before process_restart has finished waiting for it.
ForkOutcomes(w) ==
    IF w.nextPid <= MaxPid THEN {"fail", "ok", "ok_exits"} ELSE {"fail"}

process_start(w, i, fork) ==
    LET w0 == [w EXCEPT !.apps[i].pid = 0]
        pid == w.nextPid
    IN  IF fork = "fail"
        THEN w0
        ELSE update_heartbeat_time(
               [w0 EXCEPT !.apps[i].started = TRUE,
                          !.apps[i].first_heartbeat = FALSE,
                          !.apps[i].pid = pid,
                          !.procs = @ \cup {pid},
                          !.nextPid = pid + 1,
                          !.hist[i].spawnAt = w.now,
                          !.hist[i].lastArr = w.now,
                          !.hist[i].sent = FALSE,
                          !.hist[i].hbSeen = FALSE,
                          !.hist[i].latch =
                              IF @ = "lifted" THEN "respawned" ELSE "none"], i)

\* What the child does with the termination request: it exits at the first
\* or at the last poll of the wait ("term"), or it ignores SIGTERM and is
\* gone when SIGKILL is re-probed ("kill"), or it is still there at the
\* re-probe, or kill(SIGKILL) fails ("unconfirmed").
KillOutcomes ==
    { [how |-> "term", wait |-> 1],
      [how |-> "term", wait |-> MAX_WAIT_PROCESS_TERMINATION],
      [how |-> "kill", wait |-> MAX_WAIT_PROCESS_TERMINATION],
      [how |-> "unconfirmed", wait |-> MAX_WAIT_PROCESS_TERMINATION] }

\* waitpid(WUNTRACED) reports a child that a signal has stopped: that ends
\* the wait at the first poll with the child still there.
reported_stopped(w, pid) == pid \in w.procs /\ pid \in w.halted

\* History: hist[i].signalled are the pids of the processes of child i that
\* process_kill has sent SIGTERM.
\* History: the signals one call of process_kill sends, each with the
\* number of polls of the wait loop that came before it.
kill_signals(early, polls, k) ==
    IF early \/ k.how = "term"
    THEN <<[sig |-> "SIGTERM", polls |-> 0]>>
    ELSE <<[sig |-> "SIGTERM", polls |-> 0],
           [sig |-> "SIGKILL", polls |-> polls]>>

\* Faulty variant: a confirmed termination clears started and keeps the pid.
process_kill_keeps_pid(w, i, k) ==
    LET pid == w.apps[i].pid
        gone == pid \notin w.procs
        stopped == reported_stopped(w, pid)
        wait == IF gone \/ stopped THEN 1 ELSE k.wait
        killed == \/ gone
                  \/ ~stopped /\ k.how \in {"term", "kill"}
                  \/ stopped /\ k.how # "unconfirmed"
        w1 == [w EXCEPT !.now = @ + wait,
                        !.hist[i].signalled = IF gone THEN @ ELSE @ \cup {pid},
                        !.hist[i].signals =
                            kill_signals(gone, wait,
                                         IF stopped
                                         THEN [k EXCEPT !.how = "kill"]
                                         ELSE k)]
    IN  IF pid <= 0
        THEN w
        ELSE IF killed
             THEN [w1 EXCEPT !.procs = @ \ {pid},
                             !.halted = @ \ {pid},
                             !.apps[i].started = FALSE,
                             !.apps[i].first_heartbeat = FALSE]
             ELSE w1

process_kill(w, i, k) ==
    LET pid == w.apps[i].pid
        gone == pid \notin w.procs
        stopped == reported_stopped(w, pid)
        wait == IF gone \/ stopped THEN 1 ELSE k.wait
        killed == \/ gone
                  \/ ~stopped /\ k.how \in {"term", "kill"}
                  \/ stopped /\ k.how # "unconfirmed"
        w1 == [w EXCEPT !.now = @ + wait,
                        !.hist[i].signalled = IF gone THEN @ ELSE @ \cup {pid},
                        !.hist[i].signals =
                            kill_signals(gone, wait,
                                         IF stopped
                                         THEN [k EXCEPT !.how = "kill"]
                                         ELSE k)]
    IN  IF pid <= 0
        THEN w
        ELSE IF killed
             THEN [w1 EXCEPT !.procs = @ \ {pid},
                             !.halted = @ \ {pid},
                             !.apps[i].started = FALSE,
                             !.apps[i].first_heartbeat = FALSE,
                             !.apps[i].pid = 0]
             ELSE w1

\* The process fork created exits before process_restart probes it.
child_exits(w, i, fork) ==
    IF fork = "ok_exits" THEN [w EXCEPT !.procs = @ \ {w.apps[i].pid}] ELSE w

\* The wait for the new process: one sleep when it is up at the first probe,
\* MAX_WAIT_PROCESS_START sleeps otherwise.
wait_for_start(w, i) ==
    [w EXCEPT !.now = @ + (IF process_is_running(w, i)
                           THEN 1 ELSE MAX_WAIT_PROCESS_START)]

process_restart(w, i, k, fork) ==
    Then(IF process_is_running(w, i) THEN process_kill(w, i, k) ELSE w,
         LAMBDA w1 :
    Then(child_exits(process_start(w1, i, fork), i, fork),
         LAMBDA w2 :
    Then(wait_for_start(w2, i),
         LAMBDA w3 :
    IF ~process_is_running(w3, i) THEN w3 ELSE update_heartbeat_time(w3, i))))

(***************************************************************************)
(* filecmd.c                                                               *)
(***************************************************************************)
FILECMD_STOPAPP == <<"wdtstop", 0>>
FILECMD_RESTARTAPP == <<"wdtrestart", 0>>
FILECMD_REBOOT == <<"wdtreboot", 0>>

get_file_name(action, i) == <<action, i>>

filecmd_start(w, i) == get_file_name("start", i) \in w.files
filecmd_stop(w, i) == get_file_name("stop", i) \in w.files
filecmd_restart(w, i) == get_file_name("restart", i) \in w.files

filecmd_remove_start(w, i) ==
    [w EXCEPT !.files = @ \ {get_file_name("start", i)}]

filecmd_remove_restart(w, i) ==
    [w EXCEPT !.files = @ \ {get_file_name("restart", i)}]

(***************************************************************************)
(* cmd.c and parse_commands of main.c.  A datagram is its first byte and   *)
(* the number parse_number finds after it.                                 *)
(***************************************************************************)
cmd_parse_network(d) ==
    IF d.tag = "p"
    THEN IF 0 < d.n /\ INT32_MAX > d.n
         THEN [type |-> "NET_CMD_HEARTBEAT", pid |-> d.n]
         ELSE [type |-> "NET_CMD_UNKNOWN", pid |-> 0]
    ELSE IF d.tag = "a" THEN [type |-> "NET_CMD_START", pid |-> 0]
    ELSE IF d.tag = "o" THEN [type |-> "NET_CMD_STOP", pid |-> 0]
    ELSE IF d.tag = "r" THEN [type |-> "NET_CMD_RESTART", pid |-> 0]
    ELSE [type |-> "NET_CMD_UNKNOWN", pid |-> 0]

\* The child a datagram is applied to, 0 when it is applied to none.
heartbeat_target(w, d) ==
    LET cmd == cmd_parse_network(d)
    IN  IF cmd.type = "NET_CMD_HEARTBEAT" THEN find_pid(w, cmd.pid) ELSE 0

parse_commands(w, d) ==
    LET i == heartbeat_target(w, d)
        t == heartbeat_get_elapsed_time(w, i)
        w1 == IF w.apps[i].first_heartbeat
              THEN IF t >= 0
                   THEN [w EXCEPT !.stats[i] = stats_update_heartbeat_time(@, t)]
                   ELSE w
              ELSE [w EXCEPT !.stats[i] = stats_update_first_heartbeat_time(@, t),
                             !.apps[i].first_heartbeat = TRUE]
    IN  IF i = 0
        THEN w
        ELSE heartbeat_update_time([w1 EXCEPT !.hist[i].hbSeen = TRUE], i)

(***************************************************************************)
(* The scan of one child: the body of the for loop of main().  The result  *)
(* is the new state and the branch taken.  The resource sample taken every *)
(* 60 s of uptime writes only the CPU and RSS fields, which are no part of *)
(* this model.                                                             *)
(***************************************************************************)
\* Every 15 minutes of uptime the statistics of a started child are written.
periodic_stats_write(w, i) ==
    IF process_is_started(w, i) /\ uptime % (15 * 60) = 0
    THEN stats_print_to_file(stats_write_to_file(w, i), i)
    ELSE w

\* History: the child is down because its stop file was seen.
stopped_by_file(w, i) ==
    IF process_is_started(w, i) THEN w
    ELSE [w EXCEPT !.hist[i].latch = "stopped"]

scan_app(w0, i, k, fork) ==
    LET w == periodic_stats_write(w0, i)
    IN
    IF process_is_started(w, i)
    THEN IF ~process_is_running(w, i)
         THEN [kind |-> "crash",
               w |-> process_restart(
                       [w EXCEPT !.stats[i] = stats_crashed_at(@, time_now(w))],
                       i, k, fork)]
         ELSE IF heartbeat_is_timeout(w, i)
         THEN [kind |-> "hbreset",
               w |-> process_restart(
                       [w EXCEPT !.stats[i] = stats_heartbeat_reset_at(@, time_now(w))],
                       i, k, fork)]
         ELSE IF filecmd_stop(heartbeat_is_timeout_effect(w, i), i)
         THEN [kind |-> "stop",
               w |-> stopped_by_file(
                       process_kill(heartbeat_is_timeout_effect(w, i), i, k), i)]
         ELSE IF filecmd_restart(heartbeat_is_timeout_effect(w, i), i)
         THEN [kind |-> "restart",
               w |-> filecmd_remove_restart(
                       process_restart(heartbeat_is_timeout_effect(w, i), i, k, fork), i)]
         ELSE [kind |-> "running", w |-> heartbeat_is_timeout_effect(w, i)]
    ELSE IF ~filecmd_stop(w, i) /\ (filecmd_start(w, i) \/ process_is_start_time(w, i))
         THEN LET w1 == process_start(w, i, fork)
              IN  IF process_is_started(w1, i)
                  THEN [kind |-> "start",
                        w |-> filecmd_remove_restart(filecmd_remove_start(
                                [w1 EXCEPT !.stats[i] =
                                    stats_started_at(@, time_now(w1))], i), i)]
                  ELSE [kind |-> "startfail", w |-> w1]
         ELSE [kind |-> "idle", w |-> w]

\* The scan of child i under every outcome of its system calls.
ScanOutcomes(w, i) ==
    { scan_app(w, i, k, fork) : k \in KillOutcomes, fork \in ForkOutcomes(w) }

(***************************************************************************)
(* The environment while the supervisor is inside a call: the children in  *)
(* S kept sending their heartbeats on schedule and the last datagram of    *)
(* each waits in the socket; every other live child sent nothing.  A child *)
(* that lets its deadline pass is not compliant from then on.              *)
(***************************************************************************)
ArrivalLimit(h, i) ==
    IF h.sent THEN cfg[i].heartbeat_interval
    ELSE Max(cfg[i].heartbeat_interval, cfg[i].heartbeat_delay)

Missed(w, i) ==
    /\ process_is_running(w, i)
    /\ cfg[i].heartbeat_interval > 0
    /\ w.now - w.hist[i].lastArr >= ArrivalLimit(w.hist[i], i)

RECURSIVE Datagrams(_, _)
Datagrams(w, S) ==
    IF S = {} THEN <<>>
    ELSE LET i == CHOOSE x \in S : \A y \in S : x <= y
         IN  <<[tag |-> "p", n |-> w.apps[i].pid]>> \o Datagrams(w, S \ {i})

Settle(w, S) ==
    [w EXCEPT !.hist = [i \in Apps |->
        IF i \in S
        THEN [w.hist[i] EXCEPT !.lastArr = w.now, !.sent = TRUE]
        ELSE IF Missed(w, i)
             THEN [w.hist[i] EXCEPT !.compliant = FALSE]
             ELSE w.hist[i]]]

\* The senders a call that took the clock from t to w.now can have had.
Senders(w, t) ==
    IF w.now = t THEN {{}}
    ELSE SUBSET { i \in Apps : /\ process_is_running(w, i)
                              /\ w.apps[i].pid \notin w.halted }

\* What a call that took the clock from t to w.now leaves behind: the state
\* with the arrivals recorded, and the datagrams that wait in the socket.
Arrivals(w, t) ==
    { [w |-> Settle(w, S), q |-> Datagrams(w, S)] : S \in Senders(w, t) }

TimeCap == MaxTime + MAX_WAIT_PROCESS_TERMINATION

\* The clock at the end of main(): the loop after the main loop waits for
\* each child once, so it is followed to its end wherever it starts.
ReturnCap == TimeCap + (NApps * MAX_WAIT_PROCESS_TERMINATION)

Commit(w) ==
    /\ apps' = w.apps
    /\ stats' = w.stats
    /\ raw' = w.raw
    /\ procs' = w.procs
    /\ halted' = w.halted
    /\ nextPid' = w.nextPid
    /\ now' = w.now
    /\ files' = w.files
    /\ hist' = w.hist

NoEvent == [kind |-> "none", app |-> 0]

\* The supervisor process has not exited.
NO_STATUS == 0 - 1

Running == pc \notin {"done", "exited"}

\* The supervisor spends its time waiting in poll() or inside a blocking
\* call; the clock, the children and the operator act while it waits.
Waiting == pc = "poll"

(***************************************************************************)
(* Initial state: main() at the place `at`, with the statistics            *)
(* `memory` in the records of stats.c and `disk` in the statistics files;  *)
(* InitWith is the state after stats_read_from_file loaded every record    *)
(* (and wrote it back when there was no file).                             *)
(***************************************************************************)
InitFrom(sc, budget, at, memory, disk, started) ==
    /\ cfg = sc.cfg
    /\ reboot = sc.reboot
    /\ start_time = started
    /\ apps = [i \in Apps |-> [started |-> FALSE, first_heartbeat |-> FALSE,
                               pid |-> 0, last_heartbeat |-> 0]]
    /\ stats = memory
    /\ raw = disk
    /\ main_alive = TRUE
    /\ return_code = EXIT_NORMALLY
    /\ kill_error = KILL_ERROR_INIT
    /\ pc = at
    /\ status = NO_STATUS
    /\ idx = 1
    /\ uptime = 0
    /\ intr = FALSE
    /\ now = 0
    /\ procs = {}
    /\ halted = {}
    /\ nextPid = 1
    /\ udpq = <<>>
    /\ files = {}
    /\ hist = [i \in Apps |-> [spawnAt |-> 0, lastArr |-> 0, sent |-> FALSE,
                               hbSeen |-> FALSE, compliant |-> TRUE,
                               latch |-> "none", held |-> ZeroStats,
                               signals |-> <<>>, signalled |-> {}]]
    /\ ev = NoEvent
    /\ trig = {}
    /\ env = budget

\* The supervisor has just started: the clock of the model starts with it.
InitAt(sc, budget, at, memory, disk) ==
    InitFrom(sc, budget, at, memory, disk, BootEpoch)

InitWith(sc, budget, at, loaded) == InitAt(sc, budget, at, loaded, loaded)

\* main() is about to enter the loop; no statistics file existed.
InitState(sc, budget) ==
    InitWith(sc, budget, "top", [i \in Apps |-> ZeroStats])

Init == \E sc \in Scenarios : InitState(sc, MaxEnv)

(***************************************************************************)
(* The supervisor: main().                                                 *)
(***************************************************************************)
\* while(main_alive) and the uptime taken at the top of the tick; when the
\* loop ends, udp_stop.
\* Faulty variant: the loop does not look at main_alive.
LoopTop_forever ==
    /\ pc = "top"
    /\ pc' = "poll"
    /\ uptime' = time_now(World) - start_time
    /\ ev' = NoEvent
    /\ UNCHANGED <<cfg, reboot, start_time, status, apps, stats, raw, main_alive, return_code,
                   kill_error, idx, intr, now, procs, halted, nextPid, udpq, files, hist,
                   trig, env>>

LoopTop ==
    /\ pc = "top"
    /\ IF main_alive
       THEN /\ pc' = "poll"
            /\ uptime' = time_now(World) - start_time
            /\ idx' = idx
       ELSE /\ pc' = "shutdown"
            /\ idx' = 1
            /\ uptime' = uptime
    /\ ev' = NoEvent
    /\ UNCHANGED <<cfg, reboot, start_time, status, apps, stats, raw, main_alive, return_code,
                   kill_error, intr, now, procs, halted, nextPid, udpq, files, hist,
                   trig, env>>

\* udp_poll returned 1: poll was interrupted by a signal, or poll or
\* recvfrom failed.
PollFails(why) ==
    /\ pc = "poll"
    /\ IF why = "EINTR" THEN intr ELSE ~intr
    /\ intr' = FALSE
    /\ IF main_alive
       THEN /\ main_alive' = FALSE
            /\ pc' = "top"
            /\ trig' = trig \cup {why}
            /\ idx' = idx
       ELSE /\ main_alive' = main_alive
            /\ pc' = "scan"
            /\ trig' = trig
            /\ idx' = 1
    /\ ev' = NoEvent
    /\ UNCHANGED <<cfg, reboot, start_time, status, apps, stats, raw, return_code, kill_error, uptime,
                   now, procs, halted, nextPid, udpq, files, hist, env>>

\* udp_poll returned 0 after the timeout, without a datagram.
PollTimeout ==
    /\ pc = "poll"
    /\ ~intr
    /\ udpq = <<>>
    /\ pc' = "scan"
    /\ idx' = 1
    /\ ev' = NoEvent
    /\ UNCHANGED <<cfg, reboot, start_time, status, apps, stats, raw, main_alive, return_code,
                   kill_error, uptime, intr, now, procs, halted, nextPid, udpq, files,
                   hist, trig, env>>

\* udp_poll returned one datagram: parse_commands.
PollDatagram ==
    /\ pc = "poll"
    /\ ~intr
    /\ udpq # <<>>
    /\ Commit(parse_commands(World, Head(udpq)))
    /\ udpq' = Tail(udpq)
    /\ pc' = "scan"
    /\ idx' = 1
    /\ ev' = [kind |-> "datagram", app |-> heartbeat_target(World, Head(udpq))]
    /\ UNCHANGED <<cfg, reboot, start_time, status, main_alive, return_code, kill_error, uptime,
                   intr, trig, env>>

\* One iteration of the scan loop.
ScanApp ==
    /\ pc = "scan"
    /\ \E r \in ScanOutcomes(World, idx) :
         /\ r.w.now <= TimeCap
         /\ r.w.stats[idx].crash_count <= MaxEvents
         /\ r.w.stats[idx].heartbeat_reset_count <= MaxEvents
         /\ \E a \in Arrivals(r.w, now) :
              /\ Len(udpq) + Len(a.q) <= MaxQueue
              /\ Len(a.q) <= env
              /\ Commit(a.w)
              /\ udpq' = udpq \o a.q
              /\ env' = env - Len(a.q)
         /\ ev' = [kind |-> r.kind, app |-> idx]
    /\ IF idx < NApps
       THEN pc' = pc /\ idx' = idx + 1
       ELSE pc' = "filecmd" /\ idx' = idx
    /\ UNCHANGED <<cfg, reboot, start_time, status, main_alive, return_code, kill_error, uptime,
                   intr, trig>>

\* Faulty variant: every file command present is looked up, so all of them
\* are removed and the last one found sets the exit code.
CheckFileCommands_all ==
    /\ pc = "filecmd"
    /\ LET F == files \cap {FILECMD_STOPAPP, FILECMD_RESTARTAPP, FILECMD_REBOOT}
       IN /\ files' = files \ F
          /\ main_alive' = (main_alive /\ F = {})
          /\ return_code' = IF FILECMD_REBOOT \in F THEN EXIT_REBOOT
                             ELSE IF FILECMD_RESTARTAPP \in F THEN EXIT_RESTART
                             ELSE IF FILECMD_STOPAPP \in F THEN EXIT_NORMALLY
                             ELSE return_code
          /\ trig' = trig \cup { f[1] : f \in F }
          /\ ev' = [kind |-> IF F = {} THEN "nofile" ELSE "wdtstop", app |-> 0]
    /\ pc' = "reboot"
    /\ UNCHANGED <<cfg, reboot, start_time, status, apps, stats, raw, kill_error, idx, uptime, intr,
                   now, procs, halted, nextPid, udpq, hist, env>>

\* The general purpose file commands; filecmd_exists removes the file it finds.
CheckFileCommands ==
    /\ pc = "filecmd"
    /\ IF FILECMD_STOPAPP \in files
       THEN /\ files' = files \ {FILECMD_STOPAPP}
            /\ main_alive' = FALSE
            /\ return_code' = EXIT_NORMALLY
            /\ trig' = trig \cup {"wdtstop"}
            /\ ev' = [kind |-> "wdtstop", app |-> 0]
       ELSE IF FILECMD_RESTARTAPP \in files
       THEN /\ files' = files \ {FILECMD_RESTARTAPP}
            /\ main_alive' = FALSE
            /\ return_code' = EXIT_RESTART
            /\ trig' = trig \cup {"wdtrestart"}
            /\ ev' = [kind |-> "wdtrestart", app |-> 0]
       ELSE IF FILECMD_REBOOT \in files
       THEN /\ files' = files \ {FILECMD_REBOOT}
            /\ main_alive' = FALSE
            /\ return_code' = EXIT_REBOOT
            /\ trig' = trig \cup {"wdtreboot"}
            /\ ev' = [kind |-> "wdtreboot", app |-> 0]
       ELSE /\ ev' = [kind |-> "nofile", app |-> 0]
            /\ UNCHANGED <<files, main_alive, return_code, trig>>
    /\ pc' = "reboot"
    /\ UNCHANGED <<cfg, reboot, start_time, status, apps, stats, raw, kill_error, idx, uptime, intr,
                   now, procs, halted, nextPid, udpq, hist, env>>

\* localtime(time(NULL)): the minute of the day (the zone is UTC).
local_minute(w) == (time_now(w) \div 60) % 1440

periodic_reboot_fires(w) ==
    /\ reboot.mode # "DISABLED"
    /\ uptime % 60 = 0
    /\ \/ reboot.mode = "DAILY_TIME" /\ local_minute(w) = reboot.minute
       \/ /\ reboot.mode = "INTERVAL"
          /\ uptime \div 60 > 0
          /\ (uptime \div 60) % reboot.minute = 0

CheckPeriodicReboot ==
    /\ pc = "reboot"
    /\ IF periodic_reboot_fires(World)
       THEN /\ main_alive' = FALSE
            /\ return_code' = EXIT_REBOOT
            /\ trig' = trig \cup {"periodic"}
       ELSE UNCHANGED <<main_alive, return_code, trig>>
    /\ pc' = "top"
    /\ ev' = [kind |-> "reboot", app |-> 0]
    /\ UNCHANGED <<cfg, reboot, start_time, status, apps, stats, raw, kill_error, idx, uptime, intr,
                   now, procs, halted, nextPid, udpq, files, hist, env>>

\* One iteration of the loop after the main loop: the statistics of the
\* child are written, then the child is killed; after the last one main()
\* returns return_code.
ShutdownApp ==
    /\ pc = "shutdown"
    /\ \E w \in { process_kill(
                      stats_print_to_file(stats_write_to_file(World, idx), idx),
                      idx, k) : k \in KillOutcomes } :
         /\ w.now <= ReturnCap
         /\ \E a \in Arrivals(w, now) :
              /\ Len(udpq) + Len(a.q) <= MaxQueue
              /\ Len(a.q) <= env
              /\ Commit(a.w)
              /\ udpq' = udpq \o a.q
              /\ env' = env - Len(a.q)
    /\ ev' = [kind |-> "shutdown", app |-> idx]
    /\ IF idx < NApps
       THEN pc' = pc /\ idx' = idx + 1 /\ status' = status
       ELSE pc' = "done" /\ idx' = idx /\ status' = return_code
    /\ UNCHANGED <<cfg, reboot, start_time, main_alive, return_code, kill_error, uptime,
                   intr, trig>>

(***************************************************************************)
(* Signal handlers of main.c.                                              *)
(***************************************************************************)
Deliver(sig) ==
    /\ Running
    /\ env > 0
    /\ env' = env - 1
    /\ trig' = trig \cup {sig}
    /\ intr' = (intr \/ pc = "poll")

\* Faulty variant: SIGINT and SIGTERM record the exit code of SIGQUIT.
SIGINT_handler_reboot ==
    /\ \E sig \in {"SIGINT", "SIGTERM"} : Deliver(sig)
    /\ main_alive' = FALSE
    /\ return_code' = EXIT_REBOOT
    /\ UNCHANGED <<cfg, reboot, start_time, status, apps, stats, raw, kill_error, pc, idx, uptime, now,
                   procs, halted, nextPid, udpq, files, hist, ev>>

\* SIGINT and SIGTERM share SIGINT_handler.
SIGINT_handler ==
    /\ \E sig \in {"SIGINT", "SIGTERM"} : Deliver(sig)
    /\ main_alive' = FALSE
    /\ return_code' = EXIT_RESTART
    /\ UNCHANGED <<cfg, reboot, start_time, status, apps, stats, raw, kill_error, pc, idx, uptime, now,
                   procs, halted, nextPid, udpq, files, hist, ev>>

SIGQUIT_handler ==
    /\ Deliver("SIGQUIT")
    /\ main_alive' = FALSE
    /\ return_code' = EXIT_REBOOT
    /\ UNCHANGED <<cfg, reboot, start_time, status, apps, stats, raw, kill_error, pc, idx, uptime, now,
                   procs, halted, nextPid, udpq, files, hist, ev>>

SIGUSR1_handler ==
    /\ Deliver("SIGUSR1")
    /\ main_alive' = FALSE
    /\ return_code' = EXIT_NORMALLY
    /\ IF kill_error > 0
       THEN kill_error' = kill_error - 1 /\ pc' = pc /\ status' = status
       ELSE kill_error' = kill_error /\ pc' = "exited" /\ status' = EXIT_NORMALLY
    /\ UNCHANGED <<cfg, reboot, start_time, apps, stats, raw, idx, uptime, now, procs, halted, nextPid,
                   udpq, files, hist, ev>>

SIGUSR2_handler ==
    /\ Deliver("SIGUSR2")
    /\ UNCHANGED <<cfg, reboot, start_time, status, apps, stats, raw, main_alive, return_code,
                   kill_error, pc, idx, uptime, now, procs, halted, nextPid, udpq,
                   files, hist, ev>>

(***************************************************************************)
(* The environment: the clock, the children, the operator.                 *)
(***************************************************************************)
ClockTick ==
    /\ Waiting
    /\ now < MaxTime
    /\ Commit(Settle([World EXCEPT !.now = @ + 1], {}))
    /\ UNCHANGED <<cfg, reboot, start_time, status, main_alive, return_code, kill_error, pc, idx,
                   uptime, intr, udpq, ev, trig, env>>

\* A managed child sends its heartbeat, p<pid>.
ChildSends ==
    /\ Waiting
    /\ Len(udpq) < MaxQueue
    /\ env > 0
    /\ env' = env - 1
    /\ \E i \in Apps :
         /\ process_is_running(World, i)
         /\ apps[i].pid \notin halted
         /\ udpq' = Append(udpq, [tag |-> "p", n |-> apps[i].pid])
         /\ hist' = [hist EXCEPT ![i].lastArr = now, ![i].sent = TRUE]
    /\ UNCHANGED <<cfg, reboot, start_time, status, apps, stats, raw, main_alive, return_code,
                   kill_error, pc, idx, uptime, intr, now, procs, halted, nextPid,
                   files, ev, trig>>

\* Datagrams of other senders: "p0" and a datagram that starts with no
\* command letter.
StrayDatagrams == { [tag |-> "p", n |-> 0], [tag |-> "x", n |-> 0] }

StrayDatagram ==
    /\ Waiting
    /\ Len(udpq) < MaxQueue
    /\ env > 0
    /\ env' = env - 1
    /\ \E d \in StrayDatagrams : udpq' = Append(udpq, d)
    /\ UNCHANGED <<cfg, reboot, start_time, status, apps, stats, raw, main_alive, return_code,
                   kill_error, pc, idx, uptime, intr, now, procs, halted, nextPid,
                   files, hist, ev, trig>>

\* A process exits or crashes on its own.
ProcessExits ==
    /\ Waiting
    /\ env > 0
    /\ env' = env - 1
    /\ \E p \in procs : procs' = procs \ {p} /\ halted' = halted \ {p}
    /\ UNCHANGED <<cfg, reboot, start_time, status, apps, stats, raw, main_alive, return_code,
                   kill_error, pc, idx, uptime, intr, now, nextPid, udpq,
                   files, hist, ev, trig>>

AllFiles ==
    { get_file_name(a, i) : a \in {"start", "stop", "restart"}, i \in Apps }
    \cup {FILECMD_STOPAPP, FILECMD_RESTARTAPP, FILECMD_REBOOT}

StopFiles == { get_file_name("stop", i) : i \in Apps }

\* The operator creates one of the files F.
OperatorCreates(F) ==
    /\ Waiting
    /\ env > 0
    /\ \E f \in F \ files :
         /\ files' = files \cup {f}
         /\ hist' = [i \in Apps |->
                       IF f = get_file_name("stop", i) /\ hist[i].latch = "lifted"
                       THEN [hist[i] EXCEPT !.latch = "stopped"] ELSE hist[i]]
    /\ env' = env - 1
    /\ UNCHANGED <<cfg, reboot, start_time, status, apps, stats, raw, main_alive, return_code,
                   kill_error, pc, idx, uptime, intr, now, procs, halted, nextPid,
                   udpq, ev, trig>>

OperatorRemoves ==
    /\ Waiting
    /\ \E f \in files :
         /\ files' = files \ {f}
         /\ hist' = [i \in Apps |->
                       IF f = get_file_name("stop", i) /\ hist[i].latch = "stopped"
                       THEN [hist[i] EXCEPT !.latch = "lifted"] ELSE hist[i]]
    /\ UNCHANGED <<cfg, reboot, start_time, status, apps, stats, raw, main_alive, return_code,
                   kill_error, pc, idx, uptime, intr, now, procs, halted, nextPid,
                   udpq, ev, trig, env>>

Next ==
    \/ LoopTop
    \/ PollFails("EINTR")
    \/ PollFails("UDP")
    \/ PollTimeout
    \/ PollDatagram
    \/ ScanApp
    \/ CheckFileCommands
    \/ CheckPeriodicReboot
    \/ ShutdownApp
    \/ SIGINT_handler
    \/ SIGQUIT_handler
    \/ SIGUSR1_handler
    \/ SIGUSR2_handler
    \/ ClockTick
    \/ ChildSends
    \/ StrayDatagram
    \/ ProcessExits
    \/ OperatorCreates(AllFiles)
    \/ OperatorRemoves

Spec == Init /\ [][Next]_vars

\* The supervisor with the children and the clock as its whole environment.
MonitoredScenarios ==
    { sc \in Scenarios : \E i \in Apps : sc.cfg[i].heartbeat_interval > 0 }

HeartbeatInit == \E sc \in MonitoredScenarios : InitState(sc, MaxHeartbeats)

HeartbeatNext ==
    \/ LoopTop
    \/ PollFails("UDP")
    \/ PollTimeout
    \/ PollDatagram
    \/ ScanApp
    \/ CheckFileCommands
    \/ CheckPeriodicReboot
    \/ ShutdownApp
    \/ ClockTick
    \/ ChildSends

HeartbeatSpec == HeartbeatInit /\ [][HeartbeatNext]_vars

\* The same, started over statistics files of an earlier run: the minimum
\* and the maximum heartbeat time are whatever the file holds.
LoadedStats ==
    { [ZeroStats EXCEPT !.min_heartbeat_time = lo, !.max_heartbeat_time = hi] :
        lo \in 0..MaxLoaded, hi \in 0..MaxLoaded }

StatsInit ==
    \E sc \in MonitoredScenarios, s \in LoadedStats :
        InitWith(sc, MaxHeartbeats, "top", [i \in Apps |-> s])

StatsSpec == StatsInit /\ [][HeartbeatNext]_vars

\* The supervisor with the operator and the clock as its whole environment.
\* The supervisor is a running thread: whenever it can take its next step
\* it takes it, and poll() returns after its timeout at the latest.
\* main() is followed up to the end of its loop.
LiveInit == \E sc \in MonitoredScenarios : InitState(sc, MaxEnv)

LiveSupervisor ==
    \/ LoopTop
    \/ PollFails("UDP")
    \/ PollTimeout
    \/ ScanApp
    \/ CheckFileCommands
    \/ CheckPeriodicReboot

LiveNext ==
    \/ LoopTop
    \/ PollFails("UDP")
    \/ PollTimeout
    \/ ScanApp
    \/ CheckFileCommands
    \/ CheckPeriodicReboot
    \/ ClockTick
    \/ OperatorCreates(StopFiles)
    \/ OperatorRemoves

LiveSpec == LiveInit /\ [][LiveNext]_vars /\ WF_vars(LiveSupervisor)

\* The supervisor with the children, the clock and an operator who sends
\* SIGUSR1 (the run script's "kill") as its environment.
SignalInit == \E sc \in Scenarios : InitState(sc, MaxSignals)

SignalNext ==
    \/ LoopTop
    \/ PollFails("EINTR")
    \/ PollFails("UDP")
    \/ PollTimeout
    \/ PollDatagram
    \/ ScanApp
    \/ CheckFileCommands
    \/ CheckPeriodicReboot
    \/ ShutdownApp
    \/ SIGUSR1_handler
    \/ ClockTick

SignalSpec == SignalInit /\ [][SignalNext]_vars

(***************************************************************************)
(* The start-up of main(): the configuration is read, the statistics are   *)
(* loaded (InitWith), the socket is bound.                                 *)
(***************************************************************************)
\* What ini_parse can return: a negative number when the file cannot be
\* opened or read, 0 on success, the line of the first error otherwise.
IniParseResults == {0 - 1, 0, 1}

\* config_parse_file: its return value for a result r of ini_parse.
config_parse_file(r) == IF r < 0 THEN 1 ELSE 0

\* read_ini_file returns what config_parse_file returns.
read_ini_file(r) == config_parse_file(r)

\* main(): if(read_ini_file()) exit(EXIT_NORMALLY);
ReadIniFile ==
    /\ pc = "start"
    /\ \E r \in IniParseResults :
         IF read_ini_file(r) # 0
         THEN /\ pc' = "exited"
              /\ status' = EXIT_NORMALLY
              /\ ev' = [kind |-> "config", app |-> 0]
         ELSE /\ pc' = "udp_start"
              /\ status' = status
              /\ ev' = NoEvent
    /\ UNCHANGED <<cfg, reboot, start_time, apps, stats, raw, main_alive, return_code,
                   kill_error, idx, uptime, intr, now, procs, halted, nextPid, udpq,
                   files, hist, trig, env>>

\* main(): if(udp_start(...)) exit(EXIT_RESTART);
UdpStart ==
    /\ pc = "udp_start"
    /\ \E ok \in BOOLEAN :
         IF ok
         THEN /\ pc' = "top"
              /\ status' = status
              /\ ev' = NoEvent
         ELSE /\ pc' = "exited"
              /\ status' = EXIT_RESTART
              /\ ev' = [kind |-> "udp_start", app |-> 0]
    /\ UNCHANGED <<cfg, reboot, start_time, apps, stats, raw, main_alive, return_code,
                   kill_error, idx, uptime, intr, now, procs, halted, nextPid, udpq,
                   files, hist, trig, env>>

StartupInit ==
    \E sc \in Scenarios :
        InitWith(sc, MaxEnv, "start", [i \in Apps |-> ZeroStats])

StartupNext ==
    \/ ReadIniFile
    \/ UdpStart
    \/ LoopTop
    \/ PollFails("UDP")
    \/ PollTimeout
    \/ ScanApp
    \/ CheckFileCommands
    \/ CheckPeriodicReboot
    \/ ShutdownApp
    \/ ClockTick

StartupSpec == StartupInit /\ [][StartupNext]_vars

(***************************************************************************)
(* The statistics files across supervisor runs: a supervisor starts over   *)
(* the files an earlier run (or a crash in the middle of a write) left,    *)
(* runs, returns, and the next supervisor loads what it wrote.  The next   *)
(* supervisor is followed up to the end of its statistics load.            *)
(***************************************************************************)
\* Application names config_ini_handler accepts (1 to MAX_APP_NAME_LENGTH - 1
\* characters): short ones, 23 characters, a 24-character one, and two of 31
\* characters that differ only after the 25th.
AppNames ==
    { <<"Bot", "Tor">>,
      <<"MessageBrokerFrontend-A", "MessageBrokerFrontend-B">>,
      <<"MessageBrokerFrontend-01", "Tor">>,
      <<"TelemetryPublisherService-North", "TelemetryPublisherService-South">> }

\* The fields of Statistic_t in the order of the struct.
StatFields ==
    <<"started_at", "crashed_at", "heartbeat_reset_at",
      "avg_first_heartbeat_time", "max_first_heartbeat_time",
      "min_first_heartbeat_time", "avg_heartbeat_time", "max_heartbeat_time",
      "min_heartbeat_time", "start_count", "crash_count", "heartbeat_count",
      "heartbeat_count_old", "heartbeat_reset_count",
      "avg_heartbeat_count_old", "magic">>

\* stats[] before anything is loaded: static storage, all bytes zero.
StaticStats == [ZeroStats EXCEPT !.magic = "00000000"]

\* f_read of a file that holds only the first n fields of record r: fread
\* stops short and the rest of the zeroed static record stays as it is.
f_read_short(r, n) ==
    [f \in DOMAIN r |->
        IF \E k \in 1..n : StatFields[k] = f THEN r[f] ELSE StaticStats[f]]

\* A record a previous run wrote.
WrittenStats ==
    [ZeroStats EXCEPT !.started_at = BootEpoch - 1, !.start_count = 2,
                      !.crash_count = 1, !.max_heartbeat_time = 1]

\* What the statistics file of one child can hold at start-up: a record as
\* written, a record whose magic is not the expected one, and a file cut
\* before the magic (after start_count, or empty).
DiskFiles ==
    { WrittenStats,
      [WrittenStats EXCEPT !.magic = "A50FAA54"],
      f_read_short(WrittenStats, 10),
      f_read_short(WrittenStats, 0) }

\* One configuration under every choice of names and of files; children
\* whose .raw names are the same after truncation find the same file.
FilesInit ==
    \E sc \in MonitoredScenarios, names \in AppNames,
       disk \in [Apps -> DiskFiles] :
        /\ sc.cfg[1].heartbeat_interval > 0
        /\ \A i, j \in Apps :
              raw_file_name(names[((i - 1) % 2) + 1])
                  = raw_file_name(names[((j - 1) % 2) + 1])
              => disk[i] = disk[j]
        /\ InitAt([sc EXCEPT !.cfg = [i \in Apps |->
                        [sc.cfg[i] EXCEPT !.name = names[((i - 1) % 2) + 1]]]],
                  MaxEnv, "read_stats", [i \in Apps |-> StaticStats], disk)

\* main(): one iteration of the loop that reads the statistics.
ReadStatistics ==
    /\ pc \in {"read_stats", "reload"}
    /\ Commit(stats_read_from_file(World, idx))
    /\ ev' = [kind |-> "load", app |-> idx]
    /\ IF idx < NApps
       THEN pc' = pc /\ idx' = idx + 1
       ELSE /\ pc' = IF pc = "read_stats" THEN "udp_start" ELSE "loaded"
            /\ idx' = 1
    /\ UNCHANGED <<cfg, reboot, start_time, status, main_alive, return_code, kill_error,
                   uptime, intr, udpq, trig, env>>

\* main() has returned and the supervisor is run again (the run script
\* re-runs it, or the system starts it after the reboot): a new process,
\* with zeroed static storage, is about to read the statistics.  What the
\* run that ended held is kept as history.
SupervisorRestarts ==
    /\ pc = "done"
    /\ pc' = "reload"
    /\ stats' = [i \in Apps |-> StaticStats]
    /\ apps' = [i \in Apps |-> [started |-> FALSE, first_heartbeat |-> FALSE,
                                pid |-> 0, last_heartbeat |-> 0]]
    /\ hist' = [i \in Apps |-> [hist[i] EXCEPT !.held = stats[i]]]
    /\ main_alive' = TRUE
    /\ return_code' = EXIT_NORMALLY
    /\ kill_error' = KILL_ERROR_INIT
    /\ status' = NO_STATUS
    /\ idx' = 1
    /\ uptime' = 0
    /\ intr' = FALSE
    /\ udpq' = <<>>
    /\ trig' = {}
    /\ ev' = [kind |-> "exec", app |-> 0]
    /\ start_time' = time_now(World)
    /\ UNCHANGED <<cfg, reboot, raw, now, procs, halted, nextPid, files, env>>

FilesNext ==
    \/ ReadStatistics
    \/ UdpStart
    \/ LoopTop
    \/ PollFails("UDP")
    \/ PollTimeout
    \/ ScanApp
    \/ CheckFileCommands
    \/ CheckPeriodicReboot
    \/ ShutdownApp
    \/ ClockTick
    \/ ProcessExits
    \/ SupervisorRestarts

FilesSpec == FilesInit /\ [][FilesNext]_vars

(***************************************************************************)
(* config.c: the periodic_reboot key.  long is the 32-bit long of an ILP32 *)
(* build; with a 64-bit long the same branches are taken at larger values. *)
(***************************************************************************)
LONG_MAX == INT32_MAX
MAX_REBOOT_MINUTES == 525600

\* value[i - 1] of the C string, "" for the terminating NUL.
Char(s, i) == IF i >= 1 /\ i <= Len(s) THEN SubSeq(s, i, i) ELSE ""

Digits == <<"0", "1", "2", "3", "4", "5", "6", "7", "8", "9">>

isdigit(c) == \E d \in 1..10 : Digits[d] = c

digit_value(c) == (CHOOSE d \in 1..10 : Digits[d] = c) - 1

RECURSIVE skip_space(_, _)
skip_space(s, i) == IF Char(s, i) = " " THEN skip_space(s, i + 1) ELSE i

\* The digits from position i on, as a number that stops at LONG_MAX.
RECURSIVE scan_digits(_, _, _)
scan_digits(s, i, acc) ==
    IF isdigit(Char(s, i))
    THEN LET d == digit_value(Char(s, i))
         IN  scan_digits(s, i + 1,
                         IF acc > (LONG_MAX - d) \div 10 THEN LONG_MAX
                         ELSE acc * 10 + d)
    ELSE [val |-> acc, end |-> i]

\* One integer conversion at position i: white space, a sign, digits.
scan_int(s, i) ==
    LET j == skip_space(s, i)
        k == IF Char(s, j) \in {"+", "-"} THEN j + 1 ELSE j
        r == scan_digits(s, k, 0)
    IN  [ok |-> r.end > k,
         val |-> IF Char(s, j) = "-" THEN 0 - r.val ELSE r.val,
         end |-> r.end]

\* strtol(value, &endptr, 10): endptr = value when there is no number.
strtol(s) ==
    LET r == scan_int(s, 1)
    IN  IF r.ok THEN [val |-> r.val, end |-> r.end]
        ELSE [val |-> 0, end |-> 1]

\* sscanf(value, "%d:%d", &hour, &min)
sscanf_hour_min(s) ==
    LET h == scan_int(s, 1)
    IN  IF ~h.ok THEN [n |-> 0, hour |-> 0, min |-> 0]
        ELSE IF Char(s, h.end) # ":" THEN [n |-> 1, hour |-> h.val, min |-> 0]
        ELSE LET m == scan_int(s, h.end + 1)
             IN  IF m.ok THEN [n |-> 2, hour |-> h.val, min |-> m.val]
                 ELSE [n |-> 1, hour |-> h.val, min |-> 0]

RebootDisabled == [mode |-> "DISABLED", minute |-> 0]

reboot_multiplier_minutes(unit) ==
    IF unit \in {"h", "H"} THEN 60
    ELSE IF unit \in {"d", "D"} THEN 24 * 60
    ELSE IF unit \in {"w", "W"} THEN 7 * 24 * 60
    ELSE IF unit \in {"m", "M"} THEN 1
    ELSE 0

\* The switch on the unit character.
reboot_multiplier(unit) ==
    IF unit \in {"h", "H"} THEN 60
    ELSE IF unit \in {"d", "D"} THEN 24 * 60
    ELSE IF unit \in {"w", "W"} THEN 7 * 24 * 60
    ELSE IF unit \in {"m", "M"} THEN 30 * 24 * 60
    ELSE 0

\* config_ini_handler, name = "periodic_reboot".
config_periodic_reboot(value) ==
    LET t == sscanf_hour_min(value)
    IN  IF t.n = 2
        THEN IF t.hour >= 0 /\ t.hour <= 23 /\ t.min >= 0 /\ t.min <= 59
             THEN [mode |-> "DAILY_TIME", minute |-> t.hour * 60 + t.min]
             ELSE RebootDisabled
        ELSE LET r == strtol(value)
                 unit == IF Char(value, r.end) # "" THEN Char(value, r.end)
                         ELSE "d"
                 multiplier == reboot_multiplier(unit)
             IN  IF /\ r.end # 1
                    /\ multiplier > 0
                    /\ r.val > 0
                    /\ ~(r.val > LONG_MAX \div multiplier)
                    /\ r.val * multiplier <= MAX_REBOOT_MINUTES
                 THEN [mode |-> "INTERVAL", minute |-> r.val * multiplier]
                 ELSE RebootDisabled

\* The values of the key the model reads: a sign or none, a number, and what
\* follows it; clock times; text without a number.  (The ini reader strips
\* the white space around a value.)
RebootNumbers ==
    {"0", "1", "5", "12", "52", "53", "365", "366", "400", "8760", "8761",
     "49711", "49712", "213047", "213048", "1491308", "1491309",
     "35791394", "35791395", "2147483647", "2147483648", "99999999999"}

RebootSuffixes ==
    {"", "h", "d", "w", "m", "H", "D", "W", "M", "s", "y", "hours", "days",
     " d", "h30", ".5d"}

RebootValues ==
    { sg \o n \o u : sg \in {"", "+", "-"}, n \in RebootNumbers,
                     u \in RebootSuffixes }
    \cup {"", "h", "d", "daily", "never", "04:00", "4:5", "23:59", "24:00",
          "12:60", "-1:30", "5:", ":30", "5:x", "5:30h", "00:16"}

\* The line of the ini file: <<>> when the key is missing.
RebootLines == {<<>>} \cup { <<v>> : v \in RebootValues }

ParseInit ==
    InitFrom([cfg |-> [i \in Apps |-> App(SectionName(i), 0, 0, 0)],
              reboot |-> RebootDisabled],
             MaxEnv, "config", [i \in Apps |-> ZeroStats],
             [i \in Apps |-> ZeroStats], BootEpoch)

\* config_parse_file: the handler runs for the key when the file has it.
ConfigParse ==
    /\ pc = "config"
    /\ \E line \in RebootLines :
         /\ reboot' = IF line = <<>> THEN reboot
                      ELSE config_periodic_reboot(line[1])
         /\ ev' = [kind |-> "periodic_reboot", app |-> 0, value |-> line]
    /\ pc' = "configured"
    /\ UNCHANGED <<cfg, start_time, status, apps, stats, raw, main_alive,
                   return_code, kill_error, idx, uptime, intr, now, procs, halted,
                   nextPid, udpq, files, hist, trig, env>>

ParseNext == ConfigParse

ParseSpec == ParseInit /\ [][ParseNext]_vars

(***************************************************************************)
(* Datagrams of any sender, as the text udp_poll hands to parse_commands.  *)
(***************************************************************************)
\* utils.c: the place of the first digit or '-' from position i on.
RECURSIVE skip_to_number(_, _)
skip_to_number(s, i) ==
    IF i > Len(s) \/ isdigit(Char(s, i)) \/ Char(s, i) = "-" THEN i
    ELSE skip_to_number(s, i + 1)

\* 10 * sum + d in a 32-bit int that wraps around (two's complement): the
\* product is formed on the 16-bit halves of the unsigned value.  For a sum
\* that does not overflow this is 10 * sum + d.
int_mul10_add(sum, d) ==
    LET base == 65536
        off == IF sum >= 0 THEN sum ELSE (sum + INT32_MAX) + 1
        hi == (off \div base) + (IF sum >= 0 THEN 0 ELSE base \div 2)
        lo == off % base
        lo1 == (10 * lo) + d
        hi1 == ((10 * hi) + (lo1 \div base)) % base
        lo2 == lo1 % base
    IN  IF hi1 >= base \div 2 THEN ((hi1 - base) * base) + lo2
        ELSE (hi1 * base) + lo2

\* utils.c: the digits from position j on, while i < length, summed in an
\* int as the code of gcc sums them.
RECURSIVE parse_digits(_, _, _)
parse_digits(s, j, sum) ==
    IF isdigit(Char(s, j)) /\ j - 1 < Len(s)
    THEN parse_digits(s, j + 1, int_mul10_add(sum, digit_value(Char(s, j))))
    ELSE sum

\* The sum of parse_number leaves the range of int at some digit: signed
\* overflow, which the language leaves undefined.
RECURSIVE parse_overflows(_, _, _)
parse_overflows(s, j, sum) ==
    IF isdigit(Char(s, j)) /\ j - 1 < Len(s)
    THEN \/ sum > (INT32_MAX - digit_value(Char(s, j))) \div 10
         \/ parse_overflows(s, j + 1, (10 * sum) + digit_value(Char(s, j)))
    ELSE FALSE

\* utils.c: parse_number(data, length, NULL), for a text with a digit or a
\* '-' in it (without one the function reads past the datagram).
parse_number(s) ==
    LET i == skip_to_number(s, 1)
    IN  IF Char(s, i) = "-" THEN 0 - parse_digits(s, i + 1, 0)
        ELSE parse_digits(s, i, 0)

\* What cmd_parse_network reads of a datagram: data[0], and for 'p' the
\* number.
datagram(text) ==
    [tag |-> Char(text, 1),
     n |-> IF Char(text, 1) = "p" THEN parse_number(text) ELSE 0]

\* What a build may return for a sum that overflowed, besides the wrapped
\* value.
UndefinedInts == {0, INT32_MAX}

\* parse_number(data, length, NULL) for a text of digits: the number, and
\* after a signed overflow the wrapped sum or another int.
parse_number_outcomes(s) ==
    IF parse_overflows(s, skip_to_number(s, 1), 0)
    THEN {parse_number(s)} \cup UndefinedInts
    ELSE {parse_number(s)}

\* A datagram together with the text it was read from.
wire_datagram(text, n) ==
    [tag |-> Char(text, 1), n |-> IF Char(text, 1) = "p" THEN n ELSE 0,
     text |-> text]

ForeignTexts ==
    {"p0", "p-1", "p-2", "p1", "p2", "p9", "p2147483646", "p2147483647",
     "p 1", "px2", "p1x", "p-", "aBot", "oTor", "rBot", "a1", "o2", "r1",
     "x", "P1", "1p", "-1"}

ForeignDatagram ==
    /\ Waiting
    /\ Len(udpq) < MaxQueue
    /\ env > 0
    /\ env' = env - 1
    /\ \E text \in ForeignTexts : udpq' = Append(udpq, datagram(text))
    /\ UNCHANGED <<cfg, reboot, start_time, status, apps, stats, raw,
                   main_alive, return_code, kill_error, pc, idx, uptime,
                   intr, now, procs, halted, nextPid, files, hist, ev, trig>>

DatagramNext ==
    \/ LoopTop
    \/ PollFails("UDP")
    \/ PollTimeout
    \/ PollDatagram
    \/ ScanApp
    \/ CheckFileCommands
    \/ CheckPeriodicReboot
    \/ ShutdownApp
    \/ ClockTick
    \/ ChildSends
    \/ ForeignDatagram

DatagramSpec == HeartbeatInit /\ [][DatagramNext]_vars

\* Heartbeats whose number is at the upper end of int or beyond it: below
\* INT32_MAX, INT32_MAX itself, 2^31, 2^32 - 1, 2^32 + k and 2^33 + k for
\* small k, and a number of eleven nines.
WireTexts ==
    {"p1", "p2", "p2147483646", "p2147483647", "p2147483648", "p4294967295",
     "p4294967296", "p4294967297", "p4294967298", "p8589934593",
     "p99999999999"}

WireDatagram ==
    /\ Waiting
    /\ Len(udpq) < MaxQueue
    /\ env > 0
    /\ env' = env - 1
    /\ \E text \in WireTexts :
         \E n \in parse_number_outcomes(text) :
            udpq' = Append(udpq, wire_datagram(text, n))
    /\ UNCHANGED <<cfg, reboot, start_time, status, apps, stats, raw,
                   main_alive, return_code, kill_error, pc, idx, uptime,
                   intr, now, procs, halted, nextPid, files, hist, ev, trig>>

WireNext ==
    \/ LoopTop
    \/ PollFails("UDP")
    \/ PollTimeout
    \/ PollDatagram
    \/ ScanApp
    \/ CheckFileCommands
    \/ CheckPeriodicReboot
    \/ ShutdownApp
    \/ ClockTick
    \/ WireDatagram

WireSpec == HeartbeatInit /\ [][WireNext]_vars

(***************************************************************************)
(* Job control: a signal (SIGSTOP, SIGTSTP, a terminal read in the         *)
(* background) stops a child; it stays in the process table and answers    *)
(* no signal but SIGKILL until it is continued.                            *)
(***************************************************************************)
ProcessStops ==
    /\ Waiting
    /\ env > 0
    /\ env' = env - 1
    /\ \E p \in procs \ halted : halted' = halted \cup {p}
    /\ UNCHANGED <<cfg, reboot, start_time, status, apps, stats, raw,
                   main_alive, return_code, kill_error, pc, idx, uptime,
                   intr, now, procs, nextPid, udpq, files, hist, ev, trig>>

KillInit == \E sc \in Scenarios : InitState(sc, MaxEnv)

KillNext ==
    \/ LoopTop
    \/ PollFails("UDP")
    \/ PollTimeout
    \/ ScanApp
    \/ CheckFileCommands
    \/ CheckPeriodicReboot
    \/ ShutdownApp
    \/ ClockTick
    \/ ProcessExits
    \/ ProcessStops
    \/ OperatorCreates(StopFiles)
    \/ OperatorRemoves

KillSpec == KillInit /\ [][KillNext]_vars

(***************************************************************************)
(* The supervisor as a running thread in its whole environment: whenever   *)
(* main() can take its next step it takes it (poll returns after its       *)
(* timeout at the latest, sleep and waitpid(WNOHANG) return).  Nothing is  *)
(* assumed of the children, the operator and the signals; the operator     *)
(* uses the signals and the files that end the supervisor.                 *)
(***************************************************************************)
ExitSupervisor ==
    \/ LoopTop
    \/ PollFails("EINTR")
    \/ PollFails("UDP")
    \/ PollTimeout
    \/ PollDatagram
    \/ ScanApp
    \/ CheckFileCommands
    \/ CheckPeriodicReboot
    \/ ShutdownApp

GlobalFiles == {FILECMD_STOPAPP, FILECMD_RESTARTAPP, FILECMD_REBOOT}

ExitNext ==
    \/ LoopTop
    \/ PollFails("EINTR")
    \/ PollFails("UDP")
    \/ PollTimeout
    \/ PollDatagram
    \/ ScanApp
    \/ CheckFileCommands
    \/ CheckPeriodicReboot
    \/ ShutdownApp
    \/ SIGINT_handler
    \/ SIGQUIT_handler
    \/ SIGUSR1_handler
    \/ ClockTick
    \/ ProcessExits
    \/ OperatorCreates(GlobalFiles)

\* The configuration whose children are all monitored, and the one with a
\* daily reboot.
ExitScenarios ==
    { sc \in Scenarios : \/ \A i \in Apps : sc.cfg[i].heartbeat_interval > 0
                          \/ sc.reboot.mode # "DISABLED" }

ExitInit == \E sc \in ExitScenarios : InitState(sc, MaxEnv)

ExitSpec == ExitInit /\ [][ExitNext]_vars /\ WF_vars(ExitSupervisor)

(***************************************************************************)
(* The supervisor with an operator who creates wdtstop, wdtrestart and     *)
(* wdtreboot, several of them between two ticks as well.                   *)
(***************************************************************************)
CommandInit == \E sc \in Scenarios : InitState(sc, MaxCommands)

CommandNext ==
    \/ LoopTop
    \/ PollFails("UDP")
    \/ PollTimeout
    \/ PollDatagram
    \/ ScanApp
    \/ CheckFileCommands
    \/ CheckPeriodicReboot
    \/ ShutdownApp
    \/ ClockTick
    \/ OperatorCreates(GlobalFiles)

CommandSpec == CommandInit /\ [][CommandNext]_vars

(***************************************************************************)
(* The supervisor with an operator who creates and removes any of the      *)
(* rendezvous files, and children that exit on their own: a child can be   *)
(* started through its start file and exit afterwards.                     *)
(***************************************************************************)
OperatorInit == \E sc \in Scenarios : InitState(sc, MaxOps)

OperatorNext ==
    \/ LoopTop
    \/ PollFails("UDP")
    \/ PollTimeout
    \/ ScanApp
    \/ CheckFileCommands
    \/ CheckPeriodicReboot
    \/ ShutdownApp
    \/ ClockTick
    \/ ProcessExits
    \/ OperatorCreates(AllFiles)
    \/ OperatorRemoves

OperatorSpec == OperatorInit /\ [][OperatorNext]_vars

(***************************************************************************)
(* The reboot schedule.  The supervisor is followed from its start, or     *)
(* from the moment it has idled for a minute less MaxTime seconds with     *)
(* children whose start delay ends then, so that the second in which       *)
(* uptime reaches 60 lies in the clock's horizon.  The policy is daily at  *)
(* the minute of that second or at the minute after it.                    *)
(***************************************************************************)
ScheduleScenarios ==
    { [cfg |-> [i \in Apps |-> IF i = 1 THEN App("Bot", 60 - 1, 1, 0)
                                        ELSE App(SectionName(i), 60, 1, 0)],
       reboot |-> [mode |-> "DAILY_TIME",
                   minute |-> (((BootEpoch + MaxTime) \div 60) % 1440) + d]]
      : d \in {0, 1} }

ScheduleInit ==
    \E sc \in ScheduleScenarios, age \in {0, 60 - MaxTime} :
        InitFrom(sc, MaxEnv, "top", [i \in Apps |-> ZeroStats],
                 [i \in Apps |-> ZeroStats], BootEpoch - age)

ScheduleNext ==
    \/ LoopTop
    \/ PollFails("UDP")
    \/ PollTimeout
    \/ ScanApp
    \/ CheckFileCommands
    \/ CheckPeriodicReboot
    \/ ShutdownApp
    \/ ClockTick
    \/ ProcessExits
    \/ OperatorCreates(StopFiles)
    \/ OperatorRemoves

ScheduleSpec == ScheduleInit /\ [][ScheduleNext]_vars

(***************************************************************************)
(* Vocabulary of the properties.                                           *)
(***************************************************************************)
\* The supervisor executes the scan of child i in this step.
ScanStep(i) ==
    /\ pc = "scan" /\ idx = i
    /\ pc' \in {"scan", "filecmd"}
    /\ pc' # "scan" \/ idx' # i

\* This step creates a new process for child i.
Spawns(i) == apps'[i].pid > 0 /\ apps'[i].pid # apps[i].pid

\* The scan cannot go on within the horizon of the model.
ScanBlocked ==
    /\ pc = "scan"
    /\ \A r \in ScanOutcomes(World, idx) :
         \/ r.w.now > TimeCap
         \/ r.w.stats[idx].crash_count > MaxEvents
         \/ r.w.stats[idx].heartbeat_reset_count > MaxEvents

(***************************************************************************)
(* C1.  A child with heartbeat_interval > 0 whose heartbeats arrive on     *)
(* time (the first one within max(interval, delay) of each spawn, every    *)
(* later one less than the interval after the previous one) is never       *)
(* restarted for a heartbeat timeout, whatever the other children do.      *)
(***************************************************************************)
C1_CompliantNeverReset ==
    \A i \in Apps :
        (ev.kind = "hbreset" /\ ev.app = i) => ~hist[i].compliant

(***************************************************************************)
(* C2.  When the scan finds a child that is started and not running, that  *)
(* step increments crash_count of the child by exactly one and calls       *)
(* restart on it (a new process when fork succeeds, the wait for it        *)
(* either way), and touches no other child.                                *)
(***************************************************************************)
C2_CrashCountedThenRestarted ==
    [][\A i \in Apps :
         (ScanStep(i) /\ process_is_started(World, i)
                      /\ ~process_is_running(World, i))
         => /\ stats'[i].crash_count = stats[i].crash_count + 1
            /\ stats'[i].heartbeat_reset_count = stats[i].heartbeat_reset_count
            /\ ev' = [kind |-> "crash", app |-> i]
            /\ now' >= now + 1
            /\ \/ Spawns(i) /\ apps'[i].pid = nextPid /\ apps'[i].started
               \/ apps'[i].pid = 0 /\ nextPid' = nextPid
            /\ \A j \in Apps \ {i} : apps'[j] = apps[j] /\ stats'[j] = stats[j]
      ]_vars

C2_Witness ==
    \E i \in Apps :
        /\ ev = [kind |-> "crash", app |-> i]
        /\ stats[i].crash_count = 1
        /\ process_is_running(World, i)

(***************************************************************************)
(* C3.  When the scan finds a started, running child whose heartbeat has   *)
(* timed out, that step increments heartbeat_reset_count by exactly one,   *)
(* copies heartbeat_count into heartbeat_count_old, zeroes heartbeat_count *)
(* and restarts the child; crash_count is unchanged.                       *)
(***************************************************************************)
C3_HeartbeatResetCounted ==
    [][\A i \in Apps :
         (ScanStep(i) /\ process_is_started(World, i)
                      /\ process_is_running(World, i)
                      /\ heartbeat_is_timeout(World, i))
         => /\ stats'[i].heartbeat_reset_count = stats[i].heartbeat_reset_count + 1
            /\ stats'[i].heartbeat_count_old = stats[i].heartbeat_count
            /\ stats'[i].heartbeat_count = 0
            /\ stats'[i].crash_count = stats[i].crash_count
            /\ ev' = [kind |-> "hbreset", app |-> i]
            /\ now' >= now + 2
            /\ Spawns(i) \/ apps'[i].pid = 0
      ]_vars

C3_Witness ==
    \E i \in Apps :
        /\ ev = [kind |-> "hbreset", app |-> i]
        /\ stats[i].heartbeat_reset_count = 1
        /\ stats[i].heartbeat_count_old = 1
        /\ stats[i].heartbeat_count = 0
        /\ process_is_running(World, i)

(***************************************************************************)
(* C4.  In every reachable state and for every child, pid > 0 implies      *)
(* started.                                                                *)
(***************************************************************************)
C4_PidImpliesStarted ==
    \A i \in Apps : apps[i].pid > 0 => apps[i].started

\* A termination that could not be confirmed leaves the pid in place.
C4_Witness ==
    \E i \in Apps :
        /\ ev = [kind |-> "stop", app |-> i]
        /\ apps[i].pid > 0
        /\ apps[i].started

(***************************************************************************)
(* C5.  For a child with heartbeat_interval = 0 the timeout decision is    *)
(* false in every reachable state and its heartbeat_reset_count is never   *)
(* incremented.                                                            *)
(***************************************************************************)
C5_NoIntervalNoTimeout ==
    \A i \in Apps :
        cfg[i].heartbeat_interval = 0
        => /\ ~heartbeat_is_timeout(World, i)
           /\ stats[i].heartbeat_reset_count = 0
           /\ ~(ev.kind = "hbreset" /\ ev.app = i)

\* An unmonitored child whose last heartbeat is older than its delay has
\* been scanned and left running.
C5_Witness ==
    \E i \in Apps :
        /\ cfg[i].heartbeat_interval = 0
        /\ ev = [kind |-> "running", app |-> i]
        /\ process_is_running(World, i)
        /\ heartbeat_get_elapsed_time(World, i) >= cfg[i].heartbeat_delay
        /\ heartbeat_get_elapsed_time(World, i) > 0

(***************************************************************************)
(* C6.  A child from which no valid heartbeat was received since its most  *)
(* recent spawn is not restarted for a heartbeat timeout earlier than      *)
(* max(heartbeat_interval, heartbeat_delay) seconds after that spawn.      *)
(***************************************************************************)
C6_FirstHeartbeatGrace ==
    [][\A i \in Apps :
         (ScanStep(i) /\ ev' = [kind |-> "hbreset", app |-> i]
                      /\ ~hist[i].hbSeen)
         => now - hist[i].spawnAt
                >= Max(cfg[i].heartbeat_interval, cfg[i].heartbeat_delay)
      ]_vars

\* The scan is about to restart, for a heartbeat timeout, a child whose
\* delay is below its interval and that has sent nothing since its spawn.
C6_Witness ==
    /\ pc = "scan"
    /\ cfg[idx].heartbeat_delay < cfg[idx].heartbeat_interval
    /\ process_is_running(World, idx)
    /\ heartbeat_is_timeout(World, idx)
    /\ ~hist[idx].hbSeen

(***************************************************************************)
(* C7.  While the file stop<app> exists no step of the supervisor creates  *)
(* a new process for that child.                                           *)
(***************************************************************************)
C7_StopFileLatches ==
    [][\A i \in Apps : filecmd_stop(World, i) => ~Spawns(i)]_vars

(***************************************************************************)
(* C8.  A child that was stopped through stop<app>, whose stop file the    *)
(* operator then deleted, is spawned again without a further command,      *)
(* provided its start delay has elapsed, fork succeeds and the supervisor  *)
(* keeps running.                                                          *)
(***************************************************************************)
C8_RespawnAfterLatchLifted ==
    \A i \in Apps :
        (hist[i].latch = "lifted")
        ~> \/ hist[i].latch = "respawned"
           \/ hist[i].latch = "stopped"
           \/ now < cfg[i].start_delay
           \/ ev = [kind |-> "startfail", app |-> i]
           \/ ~main_alive
           \/ ScanBlocked

C8_Witness ==
    \E i \in Apps :
        /\ hist[i].latch = "respawned"
        /\ ev = [kind |-> "start", app |-> i]
        /\ process_is_running(World, i)
        /\ files = {}

(***************************************************************************)
(* C9.  When a tick has observed wdtstop, wdtrestart or wdtreboot, the     *)
(* rest of the tick (the periodic reboot check) leaves the recorded exit   *)
(* code as the file command set it.                                        *)
(***************************************************************************)
C9_FileCommandExitCodeKept ==
    [][(pc = "reboot" /\ pc' = "top"
           /\ ev.kind \in {"wdtstop", "wdtrestart", "wdtreboot"})
       => return_code' = return_code]_vars

(***************************************************************************)
(* C10.  After SIGINT or SIGTERM (SIGQUIT, SIGUSR1) was delivered while    *)
(* the loop was running, and with no other exit trigger, the supervisor    *)
(* starts no further tick, and when it returns it has run the shutdown     *)
(* loop over every child and returns 2 (3, 0).                             *)
(***************************************************************************)
SignalExitCode ==
    IF trig \subseteq {"SIGINT", "SIGTERM"} THEN EXIT_RESTART
    ELSE IF trig = {"SIGQUIT"} THEN EXIT_REBOOT
    ELSE EXIT_NORMALLY

OnlyOneSignalClass ==
    /\ trig # {}
    /\ \/ trig \subseteq {"SIGINT", "SIGTERM"}
       \/ trig = {"SIGQUIT"}
       \/ trig = {"SIGUSR1"}

C10_SignalEndsLoop ==
    /\ [](OnlyOneSignalClass
            => /\ ~main_alive
               /\ return_code = SignalExitCode
               /\ pc = "done" => ev = [kind |-> "shutdown", app |-> NApps])
    /\ [][OnlyOneSignalClass => ~(pc = "top" /\ pc' = "poll")]_vars

C10_Witness ==
    /\ pc = "done"
    /\ trig = {"SIGTERM"}
    /\ return_code = EXIT_RESTART
    /\ \A i \in Apps : ~process_is_running(World, i)
    /\ stats[1].start_count = 1

(***************************************************************************)
(* C11.  When the UDP poll or receive failed with an error other than an   *)
(* interruption by a signal, and nothing else asked for the exit, the      *)
(* supervisor leaves the loop, runs the shutdown loop and returns 2.       *)
(***************************************************************************)
C11_UdpFailureExitCode ==
    (pc = "done" /\ trig = {"UDP"}) => status = EXIT_RESTART

(***************************************************************************)
(* C12.  When poll is interrupted by a signal whose handler requests no    *)
(* exit (SIGUSR2), the supervisor does not leave the loop, and the child   *)
(* table and the exit code are as they were.                               *)
(***************************************************************************)
C12_InterruptionIsNoError ==
    [][(pc = "poll" /\ intr /\ trig = {"SIGUSR2"} /\ pc' # "poll")
       => /\ main_alive' = main_alive
          /\ return_code' = return_code
          /\ apps' = apps]_vars

(***************************************************************************)
(* C13.  When the configuration file is missing or cannot be parsed, the   *)
(* supervisor spawns no child and terminates at start-up with exit code 1. *)
(***************************************************************************)
C13_ConfigInvalidExitCode ==
    (pc = "exited" /\ ev = [kind |-> "config", app |-> 0])
    => /\ status = EXIT_CRASHED
       /\ nextPid = 1
       /\ procs = {}

(***************************************************************************)
(* C14.  When the supervisor has received SIGUSR1 nine times and has not   *)
(* exited, the tenth delivery terminates the process at once with exit     *)
(* code 0, whatever the state of the shutdown sequence.                    *)
(***************************************************************************)
\* SIGUSR1 deliveries so far, while the process has not been forced out.
USR1Count == KILL_ERROR_INIT - kill_error

\* This step is a delivery of SIGUSR1.
USR1Delivered == "SIGUSR1" \in trig' /\ env' = env - 1 /\ udpq' = udpq

C14_TenthUSR1Exits ==
    [][(USR1Count = 9 /\ USR1Delivered)
       => (pc' = "exited" /\ status' = EXIT_NORMALLY)]_vars

(***************************************************************************)
(* C15.  After wdtstop was observed, when the supervisor returns, no       *)
(* process it spawned is still running and every child record has          *)
(* started = false and pid = 0.                                            *)
(***************************************************************************)
C15_AllChildrenTerminated ==
    (pc = "done" /\ "wdtstop" \in trig)
    => /\ procs = {}
       /\ \A i \in Apps : ~apps[i].started /\ apps[i].pid = 0

(***************************************************************************)
(* C16.  On loop exit the statistics of every child are persisted before   *)
(* the first termination request is sent to any child: whenever the        *)
(* shutdown loop sends a termination request, the statistics file of every *)
(* child holds that child's current statistics.                            *)
(***************************************************************************)
\* The shutdown loop sends a termination request to child i in this step.
TerminationRequested(i) ==
    /\ pc = "shutdown" /\ idx = i
    /\ apps[i].pid > 0
    /\ ev' = [kind |-> "shutdown", app |-> i]

C16_PersistAllBeforeFirstKill ==
    [][\A i \in Apps :
         TerminationRequested(i) => \A j \in Apps : j > i => raw[j] = stats[j]]_vars

(***************************************************************************)
(* C17.  start_count, crash_count and heartbeat_reset_count of a child     *)
(* never decrease during a run, and for every way the run can end the      *)
(* values the next supervisor loads from the statistics file are not       *)
(* smaller than the values the run held when it ended.                     *)
(***************************************************************************)
\* Every event counter of statistics a is at most the one of b.
CountersLeq(a, b) ==
    /\ a.start_count <= b.start_count
    /\ a.crash_count <= b.crash_count
    /\ a.heartbeat_reset_count <= b.heartbeat_reset_count

\* No event counter decreases in this step.
CountersMonotone == \A i \in Apps : CountersLeq(stats[i], stats'[i])

\* After this step the next supervisor would load, for every child,
\* counters not smaller than the ones in memory.
CountersSurvive ==
    \A i \in Apps :
        CountersLeq(stats'[i], stats_read_from_file(World, i).stats[i]')

\* As stated: for every way the run ends, the forced exit by repeated USR1
\* included.
C17_CountersMonotoneAnyExit ==
    [][/\ CountersMonotone
       /\ pc' \in {"done", "exited"} => CountersSurvive]_vars

\* C17, amended: the counters never decrease during a run, and whenever
\* main returns (the loop was left and the shutdown loop completed) the
\* statistics file of every child holds counters not smaller than the ones
\* in memory; the forced exit by repeated USR1 is not covered.
C17_CountersMonotoneOnReturn ==
    [][/\ CountersMonotone
       /\ pc' = "done" => CountersSurvive]_vars

\* main returned after SIGUSR1 with a child that was started and whose
\* start is in the statistics file.
C17_Witness ==
    /\ pc = "done"
    /\ "SIGUSR1" \in trig
    /\ \E i \in Apps :
         /\ stats[i].start_count >= 1
         /\ raw[i].start_count = stats[i].start_count

(***************************************************************************)
(* C18.  start_count of a child is incremented by exactly one at every     *)
(* successful spawn of that child, the spawn performed inside a restart    *)
(* included.                                                               *)
(***************************************************************************)
\* The scan of child i takes the branch of the given kind in this step.
ScanBranch(i, kind) == ScanStep(i) /\ ev' = [kind |-> kind, app |-> i]

HeartbeatApplied(i) ==
    /\ pc = "poll" /\ pc' = "scan"
    /\ udpq # <<>>
    /\ heartbeat_target(World, Head(udpq)) = i
    /\ ev' = [kind |-> "datagram", app |-> i]

SampleRecorded(i) ==
    /\ HeartbeatApplied(i)
    /\ apps[i].first_heartbeat
    /\ heartbeat_get_elapsed_time(World, i) >= 0

C20_SampleWithinMinMax ==
    [][\A i \in Apps :
         SampleRecorded(i)
         => /\ stats'[i].min_heartbeat_time <= heartbeat_get_elapsed_time(World, i)
            /\ heartbeat_get_elapsed_time(World, i) <= stats'[i].max_heartbeat_time]_vars

\* The first sample after a start was recorded over loaded statistics whose
\* minimum was above it and whose maximum was below it.
C20_Witness ==
    \E i \in Apps :
        /\ ev = [kind |-> "datagram", app |-> i]
        /\ stats[i].heartbeat_count = 1
        /\ raw[i].min_heartbeat_time > stats[i].min_heartbeat_time
        /\ raw[i].max_heartbeat_time < stats[i].max_heartbeat_time

(***************************************************************************)
(* C21.  For every application name of 1 to 31 characters, the statistics  *)
(* record persisted when the supervisor terminates is read back field for  *)
(* field equal by the next supervisor: once the next supervisor has loaded *)
(* the statistics, the record of every child is the one the previous run   *)
(* held when it returned.                                                  *)
(***************************************************************************)
C21_WriteReadIdentity ==
    pc = "loaded" => \A i \in Apps : stats[i] = hist[i].held

(***************************************************************************)
(* C22.  On load, a statistics record whose magic is not the expected one, *)
(* a file cut before its magic included, is replaced by the all-zero       *)
(* record with the correct magic; a record with the expected magic is      *)
(* taken as it is, and loading one child leaves the record of every other  *)
(* child and every file as they were.                                      *)
(***************************************************************************)
\* The supervisor loads the statistics of child i in this step.
LoadStep(i) ==
    /\ pc \in {"read_stats", "reload"} /\ idx = i
    /\ ev' = [kind |-> "load", app |-> i]

C22_BadMagicZeroed ==
    [][\A i \in Apps :
         LoadStep(i)
         => /\ raw[i].magic # STATS_MAGIC => stats'[i] = ZeroStats
            /\ raw[i].magic = STATS_MAGIC => stats'[i] = raw[i]
            /\ \A j \in Apps \ {i} : stats'[j] = stats[j]
            /\ raw' = raw]_vars

\* The load is over: the file of child 1 was cut after start_count and its
\* record is all zero, the file of child 2 was whole and its record is the
\* one written.
C22_Witness ==
    /\ pc = "udp_start"
    /\ raw[1] = f_read_short(WrittenStats, 10) /\ raw[1].start_count = 2
    /\ stats[1] = ZeroStats
    /\ raw[2] = WrittenStats
    /\ stats[2] = WrittenStats /\ stats[2] # ZeroStats

(***************************************************************************)
(* C23.  At every uptime that is a multiple of 15 minutes the statistics   *)
(* files of every child in the table are written, whether or not the child *)
(* is started: after the scan of a child in such a tick, the file of the   *)
(* child holds the record the child had when the scan reached it.          *)
(***************************************************************************)
C23_PeriodicWriteEveryChild ==
    [][\A i \in Apps :
         (ScanStep(i) /\ uptime % (15 * 60) = 0) => raw'[i] = stats[i]]_vars

(***************************************************************************)
(* C24.  With the daily HH:MM policy, a supervisor that runs during the    *)
(* minute HH:MM fires within that minute: once that minute is over, the    *)
(* supervisor that was started before its end and has met no other exit    *)
(* trigger has fired the periodic reboot.                                  *)
(***************************************************************************)
MinuteOver(m) == time_now(World) >= 60 * (m + 1)

C24_FiresWithinTheMinute ==
    ( /\ reboot.mode = "DAILY_TIME"
      /\ start_time < 60 * (reboot.minute + 1)
      /\ MinuteOver(reboot.minute)
      /\ trig \ {"periodic"} = {} )
    => "periodic" \in trig

(***************************************************************************)
(* C25.  periodic_reboot = Nh, Nd, Nw, Nm or bare N yields an interval of  *)
(* 60N, 1440N, 10080N, 43200N or 1440N minutes, unless that product        *)
(* overflows, in which case the scheduler is disabled; a missing key or    *)
(* any other form (clock times apart) leaves the scheduler disabled.       *)
(***************************************************************************)
IsNumeral(s) == Len(s) > 0 /\ \A i \in 1..Len(s) : isdigit(Char(s, i))

\* The number a numeral denotes, LONG_MAX standing for everything above.
RECURSIVE NumeralValue(_)
NumeralValue(s) ==
    IF Len(s) = 0 THEN 0
    ELSE LET front == NumeralValue(SubSeq(s, 1, Len(s) - 1))
             d == digit_value(Char(s, Len(s)))
         IN  IF front > (LONG_MAX - d) \div 10 THEN LONG_MAX
             ELSE front * 10 + d

UnitMinutes(u) ==
    CASE u = "h" -> 60
      [] u = "d" -> 1440
      [] u = "w" -> 10080
      [] u = "m" -> 43200
      [] OTHER -> 1440

\* N minutes, or disabled when the product does not fit below `limit`.
IntervalUpTo(n, minutes, limit) ==
    IF n > limit \div minutes THEN RebootDisabled
    ELSE [mode |-> "INTERVAL", minute |-> n * minutes]

\* digits ":" digits
IsClock(s) ==
    \E c \in 1..Len(s) :
        /\ Char(s, c) = ":"
        /\ IsNumeral(SubSeq(s, 1, c - 1))
        /\ IsNumeral(SubSeq(s, c + 1, Len(s)))

\* Nh, Nd, Nw, Nm or N, with N a positive decimal number.
IsStrictInterval(s) ==
    \E k \in {0, 1} :
        /\ Len(s) > k
        /\ SubSeq(s, Len(s) - k + 1, Len(s)) \in {"", "h", "d", "w", "m"}
        /\ IsNumeral(SubSeq(s, 1, Len(s) - k))
        /\ NumeralValue(SubSeq(s, 1, Len(s) - k)) > 0

StrictNumber(s) ==
    IF IsNumeral(s) THEN NumeralValue(s)
    ELSE NumeralValue(SubSeq(s, 1, Len(s) - 1))

KeyRead == ev.kind = "periodic_reboot"

BeginsAsClock(s) ==
    \E c \in 1..Len(s), e \in 1..Len(s) :
        /\ Char(s, c) = ":"
        /\ IsNumeral(SubSeq(s, 1, c - 1))
        /\ IsNumeral(SubSeq(s, c + 1, e))

\* The places where the number of a value begins and ends.
NumberSpans(s) ==
    { <<a, b>> \in {1, 2} \X (1..Len(s)) :
        /\ a = 2 => Char(s, 1) = "+"
        /\ IsNumeral(SubSeq(s, a, b))
        /\ ~isdigit(Char(s, b + 1)) }

LooseMinutes(u) ==
    CASE u \in {"h", "H"} -> 60
      [] u \in {"", "d", "D"} -> 1440
      [] u \in {"w", "W"} -> 10080
      [] u \in {"m", "M"} -> 43200
      [] OTHER -> 0

DatagramStep == pc = "poll" /\ udpq # <<>> /\ ev'.kind = "datagram"

C27_TimeoutDecision ==
    \A i \in Apps :
        LET decision == heartbeat_is_timeout(World, i)
            after == heartbeat_is_timeout_effect(World, i)
            interval == cfg[i].heartbeat_interval
            delay == cfg[i].heartbeat_delay
        IN  IF ~apps[i].started \/ interval = 0
            THEN ~decision /\ after = World
            ELSE IF now < apps[i].last_heartbeat
            THEN /\ ~decision
                 /\ after.apps[i].last_heartbeat = now
                 /\ after = [World EXCEPT !.apps[i].last_heartbeat = now]
                 /\ after.stats = stats
            ELSE /\ after = World
                 /\ decision <=>
                      now - apps[i].last_heartbeat >=
                          (IF apps[i].first_heartbeat THEN interval
                           ELSE IF interval >= delay THEN interval ELSE delay)

\* The scan met a baseline ahead of the clock and reset it: the child has
\* sent nothing, its baseline is the time of the scan, and no reset was
\* counted.
C27_Witness ==
    \E i \in Apps :
        /\ ev = [kind |-> "running", app |-> i]
        /\ apps[i].started /\ cfg[i].heartbeat_interval > 0
        /\ ~apps[i].first_heartbeat
        /\ apps[i].last_heartbeat = now
        /\ stats[i].heartbeat_reset_count = 0

(***************************************************************************)
(* C28.  process_kill sends SIGTERM before anything else, then polls the   *)
(* child at most MAX_WAIT_PROCESS_TERMINATION times; it sends SIGKILL only *)
(* when all the polls of the deadline have passed with the child still     *)
(* running, and at most once per call.                                     *)
(***************************************************************************)
C28_KillOnlyAfterDeadline ==
    \A i \in Apps :
        LET log == hist[i].signals
        IN  log # <<>> =>
              /\ log[1] = [sig |-> "SIGTERM", polls |-> 0]
              /\ Len(log) <= 2
              /\ \A n \in 2..Len(log) :
                    /\ log[n].sig = "SIGKILL"
                    /\ log[n].polls = MAX_WAIT_PROCESS_TERMINATION

(***************************************************************************)
(* C29.  When process_kill returns for a child with pid > 0, either the    *)
(* termination was confirmed and the record has started = false,           *)
(* first_heartbeat = false and pid = 0, or it was not confirmed and the    *)
(* record is unchanged, so that a later tick acts on that same process     *)
(* again: whenever the scan of a child ends with the process the child had *)
(* still alive, the record still holds that pid and started = true.        *)
(***************************************************************************)
C29_UnconfirmedStaysTracked ==
    [][\A i \in Apps :
         (ScanStep(i) /\ apps[i].pid > 0)
            => /\ \A k \in KillOutcomes :
                    LET a == process_kill(World, i, k).apps[i]
                    IN  \/ a = [apps[i] EXCEPT !.started = FALSE,
                                               !.first_heartbeat = FALSE,
                                               !.pid = 0]
                        \/ a = apps[i] /\ a.started
               /\ apps[i].pid \in procs'
                    => apps'[i].started /\ apps'[i].pid = apps[i].pid]_vars

(***************************************************************************)
(* C30.  process_is_running for a child with pid > 0 returns false only    *)
(* when the zero-signal probe reports ESRCH; it returns true when the      *)
(* probe succeeds, when it reports EPERM, and for any other probe error.   *)
(* Stated for the record of every child in every state, and for every      *)
(* result of the probe.                                                    *)
(***************************************************************************)
ProbeResults == {"0", "ESRCH", "EPERM", "EINVAL", "ENOSYS"}

C30_OnlyNoSuchProcessIsDown ==
    \A i \in Apps :
        apps[i].pid > 0 =>
            \A errno \in ProbeResults :
                process_is_running_on(apps[i].pid, errno) <=> errno # "ESRCH"

(***************************************************************************)
(* C31.  Whenever the fork of a spawn fails, in the scan of a child that   *)
(* is not started or inside the restart after a crash, a heartbeat timeout *)
(* or restart<app>, the record of the child afterwards has started = false *)
(* and pid = 0 (so that a later scan retries the spawn as a start).        *)
(***************************************************************************)
\* The scan of child i called process_start in this step and fork failed.
ForkFailed(i) ==
    /\ ScanStep(i)
    /\ ev'.kind \in {"startfail", "crash", "hbreset", "restart"}
    /\ nextPid' = nextPid

C31_FailedSpawnLeavesNotStarted ==
    [][\A i \in Apps :
         ForkFailed(i) => ~apps'[i].started /\ apps'[i].pid = 0]_vars

(***************************************************************************)
(* C32.  A tick spawns a child that is not started only if stop<app> is    *)
(* absent and either start<app> is present or at least start_delay seconds *)
(* have elapsed since the supervisor started; and no step ever creates a   *)
(* process for a child before its start delay has elapsed unless           *)
(* start<app> exists.                                                      *)
(***************************************************************************)
\* Seconds since the supervisor started.
Elapsed == time_now(World) - start_time

\* The scan of child i finds the child not started and tries to spawn it.
FirstSpawn(i) ==
    /\ ScanStep(i)
    /\ ~apps[i].started
    /\ (nextPid' # nextPid \/ ev'.kind \in {"start", "startfail"})

\* The start delay of child i has elapsed, or its start file exists.
Due(i) ==
    \/ get_file_name("start", i) \in files
    \/ Elapsed >= cfg[i].start_delay

\* C32 as it is worded: no process at all is created for a child
\* before the child is due.
C32_NeverSpawnedEarly ==
    [][\A i \in Apps :
         /\ FirstSpawn(i) => (get_file_name("stop", i) \notin files /\ Due(i))
         /\ Spawns(i) => Due(i)
      ]_vars

\* C32, what holds: a child that is not started is spawned only when it is due
\* and its stop file is absent; a process created before the child is due
\* is the respawn of a started child (after a crash, a heartbeat timeout or
\* a restart file), which does not look at the start delay.
C32_SpawnOnlyWhenDue ==
    [][\A i \in Apps :
         /\ FirstSpawn(i) => (get_file_name("stop", i) \notin files /\ Due(i))
         /\ (Spawns(i) /\ ~Due(i))
            => /\ apps[i].started
               /\ ev'.kind \in {"crash", "hbreset", "restart"}
      ]_vars

\* A child with a start delay has been spawned at the second its delay ended.
C32_Witness ==
    \E i \in Apps :
        /\ ev = [kind |-> "start", app |-> i]
        /\ cfg[i].start_delay > 0
        /\ hist[i].spawnAt = cfg[i].start_delay
        /\ apps[i].started /\ apps[i].pid \in procs

(***************************************************************************)
(* C33.  When restart<app> exists while the child is running, its          *)
(* heartbeat has not timed out and stop<app> is absent, the scan that      *)
(* sees it terminates the process of the child, spawns a new one and       *)
(* removes restart<app>; the file is never in place after a scan that      *)
(* acted on it.                                                            *)
(***************************************************************************)
\* The scan of child i in this step finds restart<app> and acts on it.
RestartRequested(i) ==
    /\ ScanStep(i)
    /\ process_is_started(World, i) /\ process_is_running(World, i)
    /\ ~heartbeat_is_timeout(World, i)
    /\ get_file_name("stop", i) \notin files
    /\ get_file_name("restart", i) \in files

C33_RestartFileRestartsOnce ==
    [][\A i \in Apps :
         RestartRequested(i)
         => /\ apps[i].pid \notin procs'
            /\ Spawns(i) /\ apps'[i].started
            /\ get_file_name("restart", i) \notin files'
      ]_vars

(***************************************************************************)
(* C34.  On an observed crash or heartbeat reset the value folded into     *)
(* avg_heartbeat_count_old is the heartbeat_count the child had            *)
(* accumulated up to that event, the value the event keeps in              *)
(* heartbeat_count_old: avg <- (avg * (n - 1) + x) / n, with n the sum of  *)
(* crash_count and heartbeat_reset_count after the increment.              *)
(***************************************************************************)
\* This step records a crash or a heartbeat reset of child i.
EventRecorded(i) ==
    \/ stats'[i].crash_count = stats[i].crash_count + 1
    \/ stats'[i].heartbeat_reset_count = stats[i].heartbeat_reset_count + 1

C34_FoldsCountOfThisEvent ==
    [][\A i \in Apps :
         EventRecorded(i)
         => LET n == stats'[i].crash_count + stats'[i].heartbeat_reset_count
                x == stats[i].heartbeat_count
            IN  /\ stats'[i].heartbeat_count_old = x
                /\ stats'[i].avg_heartbeat_count_old =
                      ((stats[i].avg_heartbeat_count_old * (n - 1)) + x) \div n
      ]_vars

(***************************************************************************)
(* C35.  Every heartbeat datagram whose decimal part denotes a value of    *)
(* INT32_MAX or more, the values of 2^32 and more whose 32-bit sum wraps   *)
(* into (0, INT32_MAX) included, is rejected as invalid: no child's        *)
(* heartbeat state changes.                                                *)
(***************************************************************************)
\* The decimal part of the text denotes INT32_MAX or more.
DenotesIntMaxOrMore(text) ==
    scan_digits(text, skip_to_number(text, 1), 0).val = INT32_MAX

C35_OutOfRangeRejected ==
    [][(/\ DatagramStep
        /\ Head(udpq).tag = "p"
        /\ DenotesIntMaxOrMore(Head(udpq).text))
       => /\ ev'.app = 0
          /\ apps' = apps
          /\ stats' = stats
      ]_vars

(***************************************************************************)
(* C36.  Under fair scheduling of the supervisor, once an exit trigger has *)
(* occurred (an exit signal, a global command file seen, the periodic      *)
(* reboot fired or a fatal UDP error), main() eventually returns: the tick *)
(* ends and the loop after the main loop ends, whatever the children do,   *)
(* children that ignore the termination request and kills that cannot be   *)
(* confirmed included.                                                     *)
(***************************************************************************)
ExitTriggers ==
    {"SIGINT", "SIGTERM", "SIGQUIT", "SIGUSR1", "wdtstop", "wdtrestart",
     "wdtreboot", "periodic", "UDP"}

C36_ExitTriggerEndsMain ==
    (trig \cap ExitTriggers # {}) ~> (pc = "done" \/ ScanBlocked)

\* main() has returned after a shutdown loop in which a child ignored the
\* termination request and its kill was not confirmed.
C36_Witness ==
    /\ pc = "done"
    /\ status = return_code
    /\ trig \cap ExitTriggers # {}
    /\ \E i \in Apps :
          /\ apps[i].started /\ apps[i].pid \in procs
          /\ Len(hist[i].signals) = 2

(***************************************************************************)
(* C37.  restart never leaves two live processes of one child: whenever a  *)
(* restart (after a crash, a heartbeat timeout or restart<app>) spawns a   *)
(* new process for a child, the process whose pid the record held before   *)
(* is no longer running.                                                   *)
(***************************************************************************)
C37_RestartLeavesOneProcess ==
    [][\A i \in Apps :
         (/\ ScanStep(i)
          /\ ev'.kind \in {"crash", "hbreset", "restart"}
          /\ Spawns(i))
         => apps[i].pid \notin procs'
      ]_vars

(***************************************************************************)
(* C38.  crash_count of a child increases only when a process of that      *)
(* child stopped running without the supervisor having sent it a           *)
(* termination or kill signal: a process the supervisor terminated itself  *)
(* (stop<app>, restart<app>, heartbeat timeout) is never recorded as a     *)
(* crash afterwards.                                                       *)
(***************************************************************************)
C38_CrashOnlyWhenUnsignalled ==
    [][\A i \in Apps :
         stats'[i].crash_count > stats[i].crash_count
         => /\ apps[i].pid > 0
            /\ apps[i].pid \notin procs
            /\ apps[i].pid \notin hist[i].signalled
      ]_vars

(***************************************************************************)
(* C39.  After any first-heartbeat sample has been recorded for a child,   *)
(* min_first_heartbeat_time <= avg_first_heartbeat_time <=                 *)
(* max_first_heartbeat_time holds, for every sequence of starts, crashes,  *)
(* heartbeat resets and first heartbeats.                                  *)
(***************************************************************************)
\* The heartbeat applied to child i in this step is its first one since the
\* spawn: a first-heartbeat sample is recorded.
FirstSampleRecorded(i) ==
    /\ HeartbeatApplied(i)
    /\ ~apps[i].first_heartbeat

C39_AverageWithinMinMax ==
    [][\A i \in Apps :
         FirstSampleRecorded(i)
         => /\ stats'[i].min_first_heartbeat_time
                  <= stats'[i].avg_first_heartbeat_time
            /\ stats'[i].avg_first_heartbeat_time
                  <= stats'[i].max_first_heartbeat_time]_vars

(***************************************************************************)
(* C40.  When more than one of wdtstop, wdtrestart and wdtreboot exist on  *)
(* the same tick, exactly one is consumed, wdtstop before wdtrestart       *)
(* before wdtreboot: the exit code is that of the winning file, and the    *)
(* other files stay in the working directory for the next run of the       *)
(* supervisor.                                                             *)
(***************************************************************************)
\* The file that wins among the files F, and the exit code it stands for.
Winner(F) ==
    IF FILECMD_STOPAPP \in F THEN FILECMD_STOPAPP
    ELSE IF FILECMD_RESTARTAPP \in F THEN FILECMD_RESTARTAPP
    ELSE FILECMD_REBOOT

CommandCode(f) ==
    IF f = FILECMD_STOPAPP THEN EXIT_NORMALLY
    ELSE IF f = FILECMD_RESTARTAPP THEN EXIT_RESTART
    ELSE EXIT_REBOOT

\* The file commands this run has consumed.
Consumed == { f \in GlobalFiles : f[1] \in trig }

====
